---- MODULE Spec2Model ----
(***************************************************************************)
(* ceph-amazing-builder: the working-container session (builder/buildah.py),*)
(* the image lookup (builder/podman.py, builder/images.py,                  *)
(* builder/container_image.py) and the two-stage container pipeline         *)
(* (builder/build.py).                                                      *)
(*                                                                          *)
(* Strings are sequences of tokens.  A token is one of the delimiters "/",  *)
(* ":" and ".", or a word: a non-empty run of characters of the class       *)
(* [-_\d\w].  An Optional value is a sequence of length 0 (None) or 1.      *)
(* Python assert statements are modelled as raising (AssertionError).       *)
(***************************************************************************)
EXTENDS Integers, Sequences, FiniteSets, TLC

\* ------------------------------------------------------------------ bounds
MaxRuns == 2
MaxSessions == 2
MaxImages == 4
MaxNameLen == 7

\* ----------------------------------------------------------------- helpers
None == <<>>
Some(x) == <<x>>
IsNone(o) == Len(o) = 0
Val(o) == o[1]

IsWord(t) == t \notin {"/", ":", ".", "\n"}
IsWordOrDot(t) == t \notin {"/", ":", "\n"}
Slice(s, a, b) == [i \in 1..(b - a + 1) |-> s[a + i - 1]]
AllWord(s) == \A i \in 1..Len(s) : IsWord(s[i])
AllWordOrDot(s) == \A i \in 1..Len(s) : IsWordOrDot(s[i])

\* ------------------------------------------------- container_image.py
\* ContainerImageName.__str__
NameStr(n) == n.remote \o <<"/">> \o n.repo \o <<"/">> \o n.name \o <<":">> \o n.tag

\* where "$" matches: at the end, and before a newline that ends the string
MatchEnds(s) ==
    {Len(s)} \cup (IF Len(s) > 0 /\ s[Len(s)] = "\n" THEN {Len(s) - 1} ELSE {})

\* the positions <<i, j, k, e>> at which
\* ^([-._\d\w]+)/(.*)/([-_\d\w]+):([-._\d\w]+)$ matches: "/" at i and j,
\* ":" at k, the last group ends at e ("." matches anything but a newline)
ParseMatches(s) ==
    {p \in (1..Len(s)) \X (1..Len(s)) \X (1..Len(s)) \X MatchEnds(s) :
        /\ p[1] < p[2] /\ p[2] < p[3]
        /\ s[p[1]] = "/" /\ s[p[2]] = "/" /\ s[p[3]] = ":"
        /\ p[1] > 1 /\ AllWordOrDot(Slice(s, 1, p[1] - 1))
        /\ \A i \in (p[1] + 1)..(p[2] - 1) : s[i] # "\n"
        /\ p[3] > p[2] + 1 /\ AllWord(Slice(s, p[2] + 1, p[3] - 1))
        /\ p[3] < p[4] /\ AllWordOrDot(Slice(s, p[3] + 1, p[4]))}

\* ContainerImageName.parse: None, or the four groups of the match
Parse(s) ==
    IF Len(s) = 0 THEN None
    ELSE LET ms == ParseMatches(s)
         IN IF ms = {} THEN None
            ELSE LET p == CHOOSE p \in ms : TRUE
                 IN Some([remote |-> Slice(s, 1, p[1] - 1),
                          repo   |-> Slice(s, p[1] + 1, p[2] - 1),
                          name   |-> Slice(s, p[2] + 1, p[3] - 1),
                          tag    |-> Slice(s, p[3] + 1, p[4])])

RECURSIVE GetTags(_)
\* ContainerImage._get_tags
GetTags(names) ==
    IF names = <<>> THEN <<>> ELSE <<Head(names).tag>> \o GetTags(Tail(names))

\* ContainerImage.__init__
ContainerImage(hashid, names) ==
    [hashid |-> hashid, names |-> names, tags |-> GetTags(names)]

\* ContainerImage.has_tag
HasTag(image, tag) == \E i \in 1..Len(image.tags) : image.tags[i] = tag

RECURSIVE GetRealNameLoop(_, _, _)
GetRealNameLoop(names, name, tag) ==
    IF names = <<>> THEN None
    ELSE IF Head(names).name = name /\ Head(names).tag = tag
         THEN Some(NameStr(Head(names)))
         ELSE GetRealNameLoop(Tail(names), name, tag)

\* ContainerImage.get_real_name
GetRealName(image, name, tag) == GetRealNameLoop(image.names, name, tag)

RECURSIVE GetLatestImageNameLoop(_)
GetLatestImageNameLoop(names) ==
    IF names = <<>> THEN None
    ELSE IF Head(names).tag = <<"latest">> THEN Some(Head(names))
         ELSE GetLatestImageNameLoop(Tail(names))

\* ContainerImage.get_latest_image_name
GetLatestImageName(image) == GetLatestImageNameLoop(image.names)

\* ------------------------------------------------------------ podman.py
RECURSIVE MutParseNamesStops(_)
MutParseNamesStops(strs) ==
    IF strs = <<>> THEN <<>>
    ELSE LET n == Parse(Head(strs))
         IN IF IsNone(n) THEN <<>> ELSE <<Val(n)>> \o MutParseNamesStops(Tail(strs))

RECURSIVE ParseNames(_)
\* Podman.get_images, the loop over entry['Names']
ParseNames(strs) ==
    IF strs = <<>> THEN <<>>
    ELSE LET n == Parse(Head(strs))
         IN (IF IsNone(n) THEN <<>> ELSE <<Val(n)>>) \o ParseNames(Tail(strs))

RECURSIVE GetImagesLoop(_, _)
\* Podman.get_images, the loop over the listing; obtained_images is never
\* appended to, so it is passed on unchanged
GetImagesLoop(entries, obtained_images) ==
    IF entries = <<>> THEN <<>>
    ELSE LET entry == Head(entries)
         IN IF \E i \in 1..Len(obtained_images) : obtained_images[i] = entry.Id
            THEN GetImagesLoop(Tail(entries), obtained_images)
            ELSE <<ContainerImage(entry.Id, ParseNames(entry.Names))>>
                 \o GetImagesLoop(Tail(entries), obtained_images)

\* Podman.get_images on the decoded output of "podman images --format json"
GetImages(entries) == GetImagesLoop(entries, <<>>)

\* ------------------------------------------------------------ images.py
\* Images.get_build_name
GetBuildName(buildname) == <<"cab-builds", "/">> \o buildname

RECURSIVE FindBuilderImageLoop(_, _, _)
FindBuilderImageLoop(images_lst, vendor, release) ==
    IF images_lst = <<>> THEN None
    ELSE LET image == Head(images_lst)
         IN IF \E i \in 1..Len(image.names) :
                   /\ image.names[i].name = vendor
                   /\ image.names[i].tag = release
            THEN Some(image)
            ELSE FindBuilderImageLoop(Tail(images_lst), vendor, release)

\* Images.find_builder_image, on the listing of cab/builder/<vendor>:<release>
FindBuilderImage(entries, vendor, release) ==
    FindBuilderImageLoop(GetImages(entries), vendor, release)

RECURSIVE FindBaseImageLoop(_, _, _)
FindBaseImageLoop(images_lst, vendor, release) ==
    IF images_lst = <<>> THEN None
    ELSE LET image == Head(images_lst)
         IN IF \E i \in 1..Len(image.names) :
                   /\ image.names[i].name = vendor
                   /\ image.names[i].tag = release
                   /\ image.names[i].repo = <<"cab", "/", "base">>
            THEN Some(image)
            ELSE FindBaseImageLoop(Tail(images_lst), vendor, release)

\* Images.find_base_image, on the listing of cab/base/<vendor>:<release>
FindBaseImage(entries, vendor, release) ==
    FindBaseImageLoop(GetImages(entries), vendor, release)

RECURSIVE FindBuildImagesLoop(_, _, _)
FindBuildImagesLoop(images_lst, buildname, hashids) ==
    IF images_lst = <<>> THEN <<>>
    ELSE LET image == Head(images_lst)
             is_match == \E i \in 1..Len(image.names) : image.names[i].name = buildname
         IN IF is_match /\ ~(\E i \in 1..Len(hashids) : hashids[i] = image.hashid)
            THEN <<image>> \o FindBuildImagesLoop(Tail(images_lst), buildname,
                                                  Append(hashids, image.hashid))
            ELSE FindBuildImagesLoop(Tail(images_lst), buildname, hashids)

\* Images.find_build_images, on the listing of cab-builds/<buildname>
FindBuildImages(entries, buildname) ==
    FindBuildImagesLoop(GetImages(entries), buildname, <<>>)

RECURSIVE FindBuildImageLoop(_, _)
FindBuildImageLoop(imgs, tag) ==
    IF imgs = <<>> THEN None
    ELSE IF HasTag(Head(imgs), tag) THEN Some(Head(imgs))
         ELSE FindBuildImageLoop(Tail(imgs), tag)

\* Images.find_build_image
FindBuildImage(entries, name, tag) ==
    FindBuildImageLoop(FindBuildImages(entries, name), tag)

\* Images.has_build_image
MutHasBuildImageAlways(entries, name, tag) == TRUE
HasBuildImage(entries, name, tag) == ~IsNone(FindBuildImage(entries, name, tag))

\* ----------------------------------------------------------- buildah.py
\* the fields of a Buildah object as __init__ leaves them before _create
NewSession(from) ==
    [from |-> from, wc |-> None, mount_path |-> None,
     committed |-> FALSE, hashid |-> None, name |-> None]

\* Buildah.is_committed
IsCommitted(s) == s.committed
\* Buildah.is_ready
IsReady(s) == ~IsNone(s.wc)

\* what a method call comes to: the object afterwards, whether it raised,
\* the exception, and the returned value
Returned(s, v) == [sess |-> s, raised |-> FALSE, err |-> "", value |-> v]
Raised(s, e) == [sess |-> s, raised |-> TRUE, err |-> e, value |-> None]

\* a command line handed to run_cmd
Command(op, ref, wc, img) == [op |-> op, ref |-> ref, wc |-> wc, img |-> img]

\* Buildah._create: asserts, command, and the code after the command returned
CreateAsserts(s) == ~IsCommitted(s) /\ ~IsReady(s) /\ Len(s.from) > 0
CreateCmd(s) == Command("from", s.from, 0, 0)
MutCreateRetTakesNoOutput(s, resp) ==
    IF resp.rc # 0 THEN Raised(s, "BuildahError")
    ELSE Returned([s EXCEPT !.wc = IF Len(resp.stdout) < 1 THEN None
                                   ELSE Some(resp.stdout[1])], None)
CreateRet(s, resp) ==
    IF resp.rc # 0 THEN Raised(s, "BuildahError")
    ELSE IF Len(resp.stdout) < 1 THEN Raised(s, "BuildahError")
    ELSE Returned([s EXCEPT !.wc = Some(resp.stdout[1])], None)

\* Buildah.mount
MutMountAssertsNone(s) == IsReady(s)
MountAsserts(s) == ~IsCommitted(s) /\ IsReady(s)
MountCmd(s) == Command("mount", <<>>, Val(s.wc), 0)
MountRet(s, resp) ==
    IF resp.rc # 0 THEN Raised(s, "BuildahError")
    ELSE IF Len(resp.stdout) < 1 THEN Raised(s, "BuildahError")
    ELSE LET t == [s EXCEPT !.mount_path = Some(resp.stdout[1])]
         IN IF ~resp.isdir THEN Raised(t, "BuildahError")
            ELSE Returned(t, t.mount_path)

\* Buildah.unmount
MutUnmountAssertsNone(s) == IsReady(s)
UnmountAsserts(s) == ~IsCommitted(s) /\ IsReady(s)
MutUnmountAlwaysNoop(s) == TRUE
MutUnmountNeverNoop(s) == FALSE
UnmountIsNoop(s) == IsNone(s.mount_path)
UnmountCmd(s) == Command("unmount", <<>>, Val(s.wc), 0)
UnmountRet(s, resp) ==
    IF resp.rc # 0 THEN Raised(s, "BuildahError")
    ELSE Returned([s EXCEPT !.mount_path = None], None)

\* Buildah.commit
CommitName(name, tag) == IF Len(tag) = 0 THEN name ELSE name \o <<":">> \o tag
MutCommitAssertsNone(s, name, tag) == IsReady(s) /\ Len(CommitName(name, tag)) > 0
CommitAsserts(s, name, tag) ==
    ~IsCommitted(s) /\ IsReady(s) /\ Len(CommitName(name, tag)) > 0
CommitCmd(s, name, tag) == Command("commit", CommitName(name, tag), Val(s.wc), 0)
MutCommitRetDropsName(s, name, resp) ==
    IF resp.rc # 0 THEN Raised(s, "BuildahError")
    ELSE IF Len(resp.stdout) < 1 THEN Raised(s, "BuildahError")
    ELSE Returned([s EXCEPT !.committed = TRUE, !.hashid = Some(resp.stdout[1])],
                  Some(resp.stdout[1]))
CommitRet(s, name, resp) ==
    IF resp.rc # 0 THEN Raised(s, "BuildahError")
    ELSE IF Len(resp.stdout) < 1 THEN Raised(s, "BuildahError")
    ELSE Returned([s EXCEPT !.committed = TRUE,
                            !.hashid = Some(resp.stdout[1]),
                            !.name = Some(name)],
                  Some(resp.stdout[1]))

\* Buildah.tag
MutTagAssertsNone(s) == IsReady(s)
TagAsserts(s) == IsCommitted(s) /\ IsReady(s)
MutTagCmdDropsTag(s, tag) ==
    Command("tag", IF IsNone(s.name) THEN <<"None">> ELSE Val(s.name),
            0, IF IsNone(s.hashid) THEN 0 ELSE Val(s.hashid))
TagCmd(s, tag) ==
    Command("tag", (IF IsNone(s.name) THEN <<"None">> ELSE Val(s.name)) \o <<":">> \o tag,
            0, IF IsNone(s.hashid) THEN 0 ELSE Val(s.hashid))
MutTagRetIgnoresRc(s, resp) == Returned(s, None)
TagRet(s, resp) ==
    IF resp.rc # 0 THEN Raised(s, "BuildahError") ELSE Returned(s, None)

\* Buildah.config
ConfigAsserts(s, confstr) == ~IsCommitted(s) /\ IsReady(s) /\ Len(confstr) > 0
ConfigCmd(s, confstr) == Command("config", confstr, Val(s.wc), 0)
ConfigRet(s, resp) ==
    IF resp.rc # 0 THEN Raised(s, "BuildahError") ELSE Returned(s, None)

\* Buildah.run
RunAsserts(s) == IsReady(s)
RunCmd(s, cmd) == Command("run", cmd, Val(s.wc), 0)
MutRunRetRaises(s, resp) ==
    IF resp.rc # 0 THEN Raised(s, "BuildahError")
    ELSE Returned(s, Some([rc |-> resp.rc, lines |-> resp.stdout]))
RunRet(s, resp) ==
    Returned(s, Some([rc |-> resp.rc,
                      lines |-> IF resp.rc # 0 THEN resp.stderr ELSE resp.stdout]))

\* --------------------------------------------- the image tool (external)
\* What buildah and podman do with the commands sent through run_cmd.  The
\* image store is a sequence of images (an image's id is its position), each
\* with the names that point at it, the image it was built on, the pipeline
\* stage and run that committed it and whether /post-install.sh is in its
\* root.  A
\* working container has the image it was created from, the same flag for
\* its root, and whether it is mounted.
Localhost(ref) == <<"localhost", "/">> \o ref

HasName(img, nm) == \E i \in 1..Len(img.names) : img.names[i] = nm

\* the name under which the store knows a reference of a command line: a
\* reference whose first segment is no registry host is a local one
Qualified(ref) ==
    \E i \in 1..Len(ref) :
        /\ ref[i] = "/"
        /\ \A j \in 1..(i - 1) : ref[j] # "/"
        /\ (ref[1] = "localhost" \/ \E j \in 1..(i - 1) : ref[j] \in {".", ":"})
Tagged(ref) ==
    IF \E i \in 1..Len(ref) : ref[i] = ":" /\ \A j \in i..Len(ref) : ref[j] # "/"
    THEN ref ELSE ref \o <<":", "latest">>
StoredName(ref) == IF Qualified(ref) THEN Tagged(ref) ELSE Localhost(Tagged(ref))

\* the image a reference given on a command line resolves to, 0 if none
Resolve(imgs, ref) ==
    LET hit == {i \in 1..Len(imgs) : HasName(imgs[i], StoredName(ref))}
    IN IF hit = {} THEN 0 ELSE CHOOSE i \in hit : TRUE

\* a name points at one image: giving it to image id takes it from the others
PointName(imgs, nm, id) ==
    [i \in 1..Len(imgs) |->
        IF i = id
        THEN [imgs[i] EXCEPT !.names = IF HasName(imgs[i], nm) THEN @ ELSE Append(@, nm)]
        ELSE [imgs[i] EXCEPT !.names = SelectSeq(@, LAMBDA x : x # nm)]]

\* (a command that exits non-zero has written to its standard error)
Response(rc, stdout, isdir) ==
    [rc |-> rc, stdout |-> stdout, isdir |-> isdir,
     stderr |-> IF rc = 0 THEN <<>> ELSE <<"error">>]
ToolResult(imgs, conts, resp) == [images |-> imgs, containers |-> conts, resp |-> resp]

\* the outcomes of one command: "ok"; "fail", a non-zero exit that changed
\* nothing; "empty", done but nothing printed; "nodir", mount printed a path
\* that is no directory
ToolExec(imgs, conts, cmd, out, by) ==
    IF out = "fail" THEN ToolResult(imgs, conts, Response(1, <<>>, FALSE))
    ELSE IF cmd.op = "from" THEN
        LET id == Resolve(imgs, cmd.ref)
        IN IF id = 0 THEN ToolResult(imgs, conts, Response(1, <<>>, FALSE))
           ELSE ToolResult(imgs,
                           Append(conts, [img |-> id, post |-> imgs[id].post,
                                          mounted |-> FALSE]),
                           Response(0, IF out = "empty" THEN <<>> ELSE <<Len(conts) + 1>>,
                                    FALSE))
    ELSE IF cmd.op = "mount" THEN
        ToolResult(imgs, [conts EXCEPT ![cmd.wc].mounted = TRUE],
                   Response(0, IF out = "empty" THEN <<>> ELSE <<cmd.wc>>, out = "ok"))
    ELSE IF cmd.op = "unmount" THEN
        ToolResult(imgs, [conts EXCEPT ![cmd.wc].mounted = FALSE],
                   Response(0, <<>>, FALSE))
    ELSE IF cmd.op = "commit" THEN
        LET id == Len(imgs) + 1
            new == [names |-> <<>>, parent |-> conts[cmd.wc].img,
                    stage |-> by.stage, run |-> by.run, post |-> conts[cmd.wc].post]
        IN ToolResult(PointName(Append(imgs, new), StoredName(cmd.ref), id), conts,
                      Response(0, IF out = "empty" THEN <<>> ELSE <<id>>, FALSE))
    ELSE IF cmd.op = "tag" THEN
        IF cmd.img \notin 1..Len(imgs)
        THEN ToolResult(imgs, conts, Response(1, <<>>, FALSE))
        ELSE ToolResult(PointName(imgs, StoredName(cmd.ref), cmd.img), conts,
                        Response(0, <<>>, FALSE))
    ELSE IF cmd.op = "rmi" THEN
        LET id == Resolve(imgs, cmd.ref)
        IN IF id = 0 THEN ToolResult(imgs, conts, Response(1, <<>>, FALSE))
           ELSE ToolResult([imgs EXCEPT ![id].names =
                               SelectSeq(@, LAMBDA x : x # StoredName(cmd.ref))],
                           conts, Response(0, <<>>, FALSE))
    ELSE ToolResult(imgs, conts, Response(0, <<>>, FALSE))

\* does a stored name match the filter of "podman images <filter>": the
\* filter is the end of the name, or of the name without its tag, and
\* starts a path segment
IsSuffix(f, s) ==
    IF Len(f) > Len(s) THEN FALSE
    ELSE LET off == Len(s) - Len(f)
         IN /\ \A i \in 1..Len(f) : s[off + i] = f[i]
            /\ (off = 0 \/ s[off] = "/")
Untagged(s) ==
    LET cs == {i \in 1..Len(s) : s[i] = ":"}
    IN IF cs = {} THEN s ELSE Slice(s, 1, (CHOOSE i \in cs : \A j \in cs : j <= i) - 1)
FilterMatches(f, nm) == IsSuffix(f, nm) \/ IsSuffix(f, Untagged(nm))

RECURSIVE ListFrom(_, _, _)
ListFrom(imgs, f, i) ==
    IF i < 1 THEN <<>>
    ELSE (IF \E k \in 1..Len(imgs[i].names) : FilterMatches(f, imgs[i].names[k])
          THEN <<[Id |-> i, Names |-> imgs[i].names]>> ELSE <<>>)
         \o ListFrom(imgs, f, i - 1)

\* the decoded output of "podman images --format json <filter>": one record
\* per image with a matching name, newest first, with all names of the image
ToolImages(imgs, f) == ListFrom(imgs, f, Len(imgs))

\* ------------------------------------------------------------- the state
VARIABLES
    images,      \* the image store of the tool
    containers,  \* the working containers of the tool
    buildname,   \* Build._name of the configured build
    clock,       \* dt.now(), in seconds
    runs,        \* the invocations of Build._build_container
    log,         \* the commands issued by the current invocation, in order
    session,     \* a Buildah object in the hands of an arbitrary caller
    last,        \* the caller's last method call on it
    created,     \* Buildah objects the caller has constructed
    commits,     \* commit() calls on session that returned
    tracing,     \* whether log is kept (it is not for concurrent invocations)
    overlapped,  \* whether an invocation has started while another was running
    inv,         \* an invocation of Build._build: its phases and what they did
    lookup,      \* a listing handed to the image lookups, and what they returned
    removal,     \* a call of Images.rm_image: the image, the loop, the result
    parsing,     \* a string handed to ContainerImageName.parse, and what came of it
    destroy,     \* a call of Build.destroy: its steps and what it returned
    imgbuild,    \* a call of an ImageBuilder method: its steps and its object
    conf         \* a Config object, the file it wrote, and the object loaded from it

rest == <<tracing, overlapped, inv, lookup, removal, parsing, destroy, imgbuild, conf>>
vars == <<images, containers, buildname, clock, runs, log, session, last, created, commits,
          rest>>

Vendor == <<"acme">>
Release == <<"v1">>
BuildNames == {<<"demo">>, <<"my", ".", "build">>}

BaseRef == <<"cab", "/", "base", "/">> \o Vendor \o <<":">> \o Release
BuilderRef == <<"cab", "/", "builder", "/">> \o Vendor \o <<":">> \o Release

StoredImage(names, parent, stage) ==
    [names |-> names, parent |-> parent, stage |-> stage, run |-> 0, post |-> FALSE]

\* the stores a first invocation can find: nothing, the base image of the
\* vendor/release, the base image and the builder image made from it, or
\* the builder image alone
InitStores ==
    { <<>>,
      <<StoredImage(<<Localhost(BaseRef)>>, 0, "base")>>,
      <<StoredImage(<<Localhost(BaseRef)>>, 0, "base"),
        StoredImage(<<Localhost(BuilderRef)>>, 1, "builder")>>,
      <<StoredImage(<<Localhost(BuilderRef)>>, 0, "builder")>> }

\* an invocation: where it is, its working_container, its local variables,
\* the exception that ended it with the place it was raised at, and the
\* store as the invocation found it
IdleRun ==
    [pc |-> "idle", sess |-> None, base_image |-> <<>>, image_date |-> <<>>,
     raw_image |-> <<>>, err |-> "", at |-> "", store0 |-> <<>>]

\* Build._build before it is called: the phase it is in, whether a registry
\* is configured, and what the compile step and the push did
IdleBuild ==
    [pc |-> "idle", do_build |-> TRUE, do_container |-> TRUE, registry |-> None,
     build_image |-> None, compiled |-> "no", img_name |-> None, pushed |-> "no",
     err |-> ""]

\* no listing has been looked up
NoLookup ==
    [listing |-> <<>>, op |-> "none", name |-> <<>>, tag |-> <<>>,
     images |-> <<>>, found |-> None, ref |-> None]

\* Images.rm_image before it is called
NoRemoval ==
    [pc |-> "idle", hashid |-> 0, names |-> <<>>, i |-> 0, success |-> TRUE,
     issued |-> <<>>]

\* ContainerImageName.parse before it is called
NoParsing == [s |-> <<>>, op |-> "none", result |-> None, text |-> None]

\* Build.destroy before it is called: the build has a configuration file
NoDestroy ==
    [pc |-> "idle", remove_install |-> FALSE, remove_containers |-> FALSE,
     install |-> "absent", config |-> TRUE, imgs |-> <<>>, k |-> 0, issued |-> <<>>,
     failed |-> "", ret |-> None, store0 |-> <<>>]

\* ImageBuilder before one of its methods is called
NoImgBuild == [pc |-> "idle", kind |-> "", i |-> 0, sess |-> None, err |-> ""]

\* the fields of a Config object before config.yaml is read
NewConfig ==
    [ccache_dir |-> None, installs_dir |-> None, ccache_default_size |-> <<"10G">>,
     registry_url |-> None, registry_is_secure |-> FALSE]

\* a Config object nothing has been set on, no file written
NoConf == [pc |-> "setting", obj |-> NewConfig, file |-> None, loaded |-> NewConfig,
           has_config |-> FALSE]

NoCall == [op |-> "none", raised |-> FALSE, err |-> "", sent |-> <<>>, before |-> None,
           value |-> None]

Init ==
    /\ images \in InitStores
    /\ containers = <<>>
    /\ buildname \in BuildNames
    /\ clock = 0
    /\ runs = [r \in 1..MaxRuns |-> IdleRun]
    /\ log = <<>>
    /\ session = None
    /\ last = NoCall
    /\ created = 0
    /\ commits = 0
    /\ tracing = TRUE
    /\ overlapped = FALSE
    /\ inv = IdleBuild
    /\ lookup = NoLookup
    /\ removal = NoRemoval
    /\ parsing = NoParsing
    /\ destroy = NoDestroy
    /\ imgbuild = NoImgBuild
    /\ conf = NoConf

\* ------------------------------------------------------------- build.py
Ended(r) == runs[r].pc \in {"done", "failed"}
Active(r) == runs[r].pc \notin {"idle", "done", "failed"}

\* the record of one command in the log
Entry(r, cmd, resp) ==
    [run |-> r, op |-> cmd.op, ref |-> cmd.ref, wc |-> cmd.wc, img |-> cmd.img,
     rc |-> resp.rc, out |-> resp.stdout]

\* the log with one more command, when it is kept
Logged(e) == IF tracing THEN Append(log, e) ELSE log

\* the command goes to the tool: its effect on the store and the log
Sent(r, cmd, tr) ==
    /\ images' = tr.images
    /\ containers' = tr.containers
    /\ log' = Logged(Entry(r, cmd, tr.resp))

\* an exception leaves Build.build: the invocation is over
Abort(run, sess, err) ==
    [run EXCEPT !.pc = "failed", !.sess = sess, !.err = err, !.at = run.pc]

By(r, stage) == [run |-> r, stage |-> stage]

\* f"{image_date}-raw"
MutRawTagIsDate(image_date) == image_date
RawTag(image_date) == image_date \o <<"-raw">>
\* container_raw_image = f"{container_image_name}:{image_date}-raw"
MutRawImageIsLatestRaw(container_image_name, image_date) ==
    container_image_name \o <<":", "latest-raw">>
ContainerRawImage(container_image_name, image_date) ==
    container_image_name \o <<":">> \o RawTag(image_date)
\* dt.now().strftime("%Y%m%dT%H%M%SZ")
DateStr(now) == <<ToString(now)>>

\* Build.build: the invocations of one build name run one after the other,
\* each a process of its own: the objects of the earlier ones are gone and
\* only their outcome is remembered
StartRun(r) ==
    /\ runs[r].pc = "idle"
    /\ \A q \in 1..MaxRuns : (q < r => Ended(q)) /\ (q > r => runs[q].pc = "idle")
    /\ runs' = [q \in 1..MaxRuns |->
                  IF q = r THEN [runs[q] EXCEPT !.pc = "has_raw", !.store0 = images]
                  ELSE [IdleRun EXCEPT !.pc = runs[q].pc, !.err = runs[q].err,
                                       !.at = runs[q].at]]
    /\ log' = <<>>
    /\ UNCHANGED <<images, containers, buildname, rest, clock, session, last, created, commits>>

\* _build_raw_container_image: Images.has_build_image(self._name, "latest-raw")
LookupRaw(r) ==
    /\ runs[r].pc = "has_raw"
    /\ \E out \in {"ok", "fail"} :
        LET cmd == Command("images", GetBuildName(buildname), 0, 0)
            tr == ToolExec(images, containers, cmd, out, By(r, "none"))
            entries == ToolImages(images, cmd.ref)
        IN /\ Sent(r, cmd, tr)
           /\ runs' = [runs EXCEPT ![r] =
                 IF tr.resp.rc # 0 THEN Abort(@, None, "PodmanError")
                 ELSE IF ~HasBuildImage(entries, buildname, <<"latest-raw">>)
                      THEN [@ EXCEPT !.pc = "find_base"]
                      ELSE [@ EXCEPT !.pc = "from",
                                     !.base_image = GetBuildName(buildname)
                                                    \o <<":", "latest-raw">>]]
    /\ UNCHANGED <<buildname, rest, clock, session, last, created, commits>>

\* _build_raw_container_image: Images.find_base_image and img.get_real_name
LookupBase(r) ==
    /\ runs[r].pc = "find_base"
    /\ \E out \in {"ok", "fail"} :
        LET cmd == Command("images", BaseRef, 0, 0)
            tr == ToolExec(images, containers, cmd, out, By(r, "none"))
            img == FindBaseImage(ToolImages(images, cmd.ref), Vendor, Release)
        IN /\ Sent(r, cmd, tr)
           /\ runs' = [runs EXCEPT ![r] =
                 IF tr.resp.rc # 0 THEN Abort(@, None, "PodmanError")
                 ELSE IF IsNone(img) THEN Abort(@, None, "NoAvailableImageError")
                 ELSE LET base_image == GetRealName(Val(img), Vendor, Release)
                      IN IF IsNone(base_image) \/ Len(Val(base_image)) = 0
                         THEN Abort(@, None, "AssertionError")
                         ELSE [@ EXCEPT !.pc = "from", !.base_image = Val(base_image)]]
    /\ UNCHANGED <<buildname, rest, clock, session, last, created, commits>>

\* Buildah(_from): the constructor, for the raw stage (next = "mount") and
\* the final stage (next = "f_mount")
Construct(r, from, next) ==
    LET s == NewSession(from)
    IN IF ~CreateAsserts(s)
       THEN /\ runs' = [runs EXCEPT ![r] = Abort(@, None, "AssertionError")]
            /\ UNCHANGED <<images, containers, log>>
       ELSE \E out \in {"ok", "fail", "empty"} :
            LET tr == ToolExec(images, containers, CreateCmd(s), out, By(r, "none"))
                res == CreateRet(s, tr.resp)
            IN /\ Sent(r, CreateCmd(s), tr)
               /\ runs' = [runs EXCEPT ![r] =
                     IF res.raised THEN Abort(@, None, res.err)
                     ELSE [@ EXCEPT !.pc = next, !.sess = Some(res.sess)]]

\* working_container.mount()
MountStep(r, next) ==
    LET s == Val(runs[r].sess)
    IN IF ~MountAsserts(s)
       THEN /\ runs' = [runs EXCEPT ![r] = Abort(@, Some(s), "AssertionError")]
            /\ UNCHANGED <<images, containers, log>>
       ELSE \E out \in {"ok", "fail", "empty", "nodir"} :
            LET tr == ToolExec(images, containers, MountCmd(s), out, By(r, "none"))
                res == MountRet(s, tr.resp)
            IN /\ Sent(r, MountCmd(s), tr)
               /\ runs' = [runs EXCEPT ![r] =
                     IF res.raised THEN Abort(@, Some(res.sess), res.err)
                     ELSE [@ EXCEPT !.pc = next, !.sess = Some(res.sess)]]

\* working_container.unmount()
UnmountStep(r, next) ==
    LET s == Val(runs[r].sess)
    IN IF ~UnmountAsserts(s)
       THEN /\ runs' = [runs EXCEPT ![r] = Abort(@, Some(s), "AssertionError")]
            /\ UNCHANGED <<images, containers, log>>
       ELSE IF UnmountIsNoop(s)
       THEN /\ runs' = [runs EXCEPT ![r].pc = next]
            /\ UNCHANGED <<images, containers, log>>
       ELSE \E out \in {"ok", "fail"} :
            LET tr == ToolExec(images, containers, UnmountCmd(s), out, By(r, "none"))
                res == UnmountRet(s, tr.resp)
            IN /\ Sent(r, UnmountCmd(s), tr)
               /\ runs' = [runs EXCEPT ![r] =
                     IF res.raised THEN Abort(@, Some(res.sess), res.err)
                     ELSE [@ EXCEPT !.pc = next, !.sess = Some(res.sess)]]

\* working_container.commit(name, tag), with the stage's bookkeeping
CommitStep(r, image_date, tag, stage, next) ==
    LET s == Val(runs[r].sess)
        name == GetBuildName(buildname)
    IN IF ~CommitAsserts(s, name, tag)
       THEN /\ runs' = [runs EXCEPT ![r] = Abort(@, Some(s), "AssertionError")]
            /\ UNCHANGED <<images, containers, log>>
       ELSE \E out \in {"ok", "fail", "empty"} :
            LET tr == ToolExec(images, containers, CommitCmd(s, name, tag), out,
                               By(r, stage))
                res == CommitRet(s, name, tr.resp)
            IN /\ Sent(r, CommitCmd(s, name, tag), tr)
               /\ runs' = [runs EXCEPT ![r] =
                     IF res.raised THEN Abort(@, Some(res.sess), res.err)
                     ELSE [@ EXCEPT !.pc = next, !.sess = Some(res.sess),
                                    !.image_date = image_date]]

\* working_container.tag(tag)
TagStep(r, tag, raw_image, next) ==
    LET s == Val(runs[r].sess)
    IN IF ~TagAsserts(s)
       THEN /\ runs' = [runs EXCEPT ![r] = Abort(@, Some(s), "AssertionError")]
            /\ UNCHANGED <<images, containers, log>>
       ELSE \E out \in {"ok", "fail"} :
            LET tr == ToolExec(images, containers, TagCmd(s, tag), out, By(r, "none"))
                res == TagRet(s, tr.resp)
            IN /\ Sent(r, TagCmd(s, tag), tr)
               /\ runs' = [runs EXCEPT ![r] =
                     IF res.raised THEN Abort(@, Some(res.sess), res.err)
                     ELSE [@ EXCEPT !.pc = next, !.raw_image = raw_image]]

\* _build_raw_container_image, line by line
RawFrom(r) ==
    /\ runs[r].pc = "from"
    /\ Construct(r, runs[r].base_image, "mount")
    /\ UNCHANGED <<buildname, rest, clock, session, last, created, commits>>

RawMount(r) ==
    /\ runs[r].pc = "mount"
    /\ MountStep(r, "rsync")
    /\ UNCHANGED <<buildname, rest, clock, session, last, created, commits>>

\* the rsync of the install tree into the mount; the tree may hold
\* post-install.sh
RawTransfer(r) ==
    /\ runs[r].pc = "rsync"
    /\ \E out \in {"ok", "fail"}, post \in BOOLEAN :
        LET wc == Val(Val(runs[r].sess).wc)
            cmd == Command("rsync", <<>>, wc, 0)
        IN /\ log' = Logged(Entry(r, cmd, Response(IF out = "ok" THEN 0 ELSE 1,
                                                 <<>>, FALSE)))
           /\ IF out = "ok"
              THEN /\ containers' = [containers EXCEPT ![wc].post = @ \/ post]
                   /\ runs' = [runs EXCEPT ![r].pc = "unmount"]
              ELSE /\ post = FALSE
                   /\ containers' = containers
                   /\ runs' = [runs EXCEPT ![r] = Abort(@, @.sess, "ContainerBuildError")]
    /\ UNCHANGED <<images, buildname, rest, clock, session, last, created, commits>>

RawUnmount(r) ==
    /\ runs[r].pc = "unmount"
    /\ UnmountStep(r, "commit")
    /\ UNCHANGED <<buildname, rest, clock, session, last, created, commits>>

RawCommit(r) ==
    /\ runs[r].pc = "commit"
    /\ CommitStep(r, DateStr(clock), RawTag(DateStr(clock)), "raw", "tag")
    /\ UNCHANGED <<buildname, rest, clock, session, last, created, commits>>

RawTagLatest(r) ==
    /\ runs[r].pc = "tag"
    /\ TagStep(r, <<"latest-raw">>,
               ContainerRawImage(GetBuildName(buildname), runs[r].image_date), "f_from")
    /\ UNCHANGED <<buildname, rest, clock, session, last, created, commits>>

\* _build_final_container_image, line by line
FinalFrom(r) ==
    /\ runs[r].pc = "f_from"
    /\ Construct(r, runs[r].raw_image, "f_mount")
    /\ UNCHANGED <<buildname, rest, clock, session, last, created, commits>>

FinalMount(r) ==
    /\ runs[r].pc = "f_mount"
    /\ MountStep(r, "f_post")
    /\ UNCHANGED <<buildname, rest, clock, session, last, created, commits>>

\* post_install_path.unlink(): the file leaves the root of the container
MutUnlinkKeepsFile(conts, wc) == conts
Unlink(conts, wc) == [conts EXCEPT ![wc].post = FALSE]

\* post-install.sh: run in the container if it is in the mount, then unlinked
FinalPostInstall(r) ==
    /\ runs[r].pc = "f_post"
    /\ LET s == Val(runs[r].sess)
           wc == Val(s.wc)
       IN IF ~containers[wc].post
          THEN /\ runs' = [runs EXCEPT ![r].pc = "f_unmount"]
               /\ UNCHANGED <<images, containers, log>>
          ELSE IF ~RunAsserts(s)
          THEN /\ runs' = [runs EXCEPT ![r] = Abort(@, Some(s), "AssertionError")]
               /\ UNCHANGED <<images, containers, log>>
          ELSE \E out \in {"ok", "fail"} :
               LET cmd == RunCmd(s, <<"bash", "-x", "/", "post-install", ".", "sh">>)
                   tr == ToolExec(images, containers, cmd, out, By(r, "none"))
                   res == RunRet(s, tr.resp)
               IN /\ images' = tr.images
                  /\ log' = Logged(Entry(r, cmd, tr.resp))
                  /\ IF Val(res.value).rc # 0
                     THEN /\ containers' = tr.containers
                          /\ runs' = [runs EXCEPT ![r] =
                                         Abort(@, Some(s), "ContainerBuildError")]
                     ELSE /\ containers' = Unlink(tr.containers, wc)
                          /\ runs' = [runs EXCEPT ![r].pc = "f_unmount"]
    /\ UNCHANGED <<buildname, rest, clock, session, last, created, commits>>

FinalUnmount(r) ==
    /\ runs[r].pc = "f_unmount"
    /\ UnmountStep(r, "f_commit")
    /\ UNCHANGED <<buildname, rest, clock, session, last, created, commits>>

FinalCommit(r) ==
    /\ runs[r].pc = "f_commit"
    /\ CommitStep(r, runs[r].image_date, runs[r].image_date, "final", "f_tag")
    /\ UNCHANGED <<buildname, rest, clock, session, last, created, commits>>

FinalTagLatest(r) ==
    /\ runs[r].pc = "f_tag"
    /\ TagStep(r, <<"latest">>, runs[r].raw_image, "done")
    /\ UNCHANGED <<buildname, rest, clock, session, last, created, commits>>

\* time passes; the clock is read at one place only, before the raw commit
\* (build.py line 383), so that is where its passing is observed
Tick ==
    /\ \E r \in 1..MaxRuns : runs[r].pc = "commit" /\ clock < r - 1
    /\ clock' = clock + 1
    /\ UNCHANGED <<images, containers, buildname, rest, runs, log, session, last, created, commits>>

Next ==
    \/ Tick
    \/ \E r \in 1..MaxRuns :
        \/ StartRun(r)
        \/ LookupRaw(r)
        \/ LookupBase(r)
        \/ RawFrom(r)
        \/ RawMount(r)
        \/ RawTransfer(r)
        \/ RawUnmount(r)
        \/ RawCommit(r)
        \/ RawTagLatest(r)
        \/ FinalFrom(r)
        \/ FinalMount(r)
        \/ FinalPostInstall(r)
        \/ FinalUnmount(r)
        \/ FinalCommit(r)
        \/ FinalTagLatest(r)

Spec == Init /\ [][Next]_vars

\* ------------------------------------- a Buildah object and any caller
\* the caller's view of one method call: the exception if any, the commands
\* that went to the tool, and the object as it was before the call
Called(op, before, res, sent) ==
    [op |-> op, raised |-> res.raised, err |-> res.err, sent |-> sent, before |-> before,
     value |-> res.value]

FromRefs == {BaseRef, <<"cab", "/", "seed", "/", "missing", ":", "x">>, <<>>}
CommitNames == {GetBuildName(<<"demo">>)}
CommitTags == {<<>>, <<"t1">>}
ExtraTags == {<<"latest">>, <<"latest-raw">>}
ConfStrs == {<<"--workingdir", "/">>, <<>>}

ToolOf(cmd, out) == ToolExec(images, containers, cmd, out, By(0, "other"))

\* the tool ran cmd
Ran(tr) == images' = tr.images /\ containers' = tr.containers

\* s = Buildah(from): on an exception no object comes to exist
CallNew(from, out) ==
    /\ created < MaxSessions
    /\ out \in {"ok", "fail", "empty"}
    /\ created' = created + 1
    /\ LET s == NewSession(from)
       IN IF ~CreateAsserts(s)
          THEN /\ out = "ok"
               /\ last' = Called("new", None, Raised(s, "AssertionError"), <<>>)
               /\ UNCHANGED <<images, containers, session, commits>>
          ELSE LET tr == ToolOf(CreateCmd(s), out)
                   res == CreateRet(s, tr.resp)
               IN /\ Ran(tr)
                  /\ last' = Called("new", None, res, <<CreateCmd(s)>>)
                  /\ session' = IF res.raised THEN session ELSE Some(res.sess)
                  /\ commits' = IF res.raised THEN commits ELSE 0
    /\ UNCHANGED <<buildname, rest, clock, runs, log>>

CallMount(out) ==
    /\ ~IsNone(session)
    /\ out \in {"ok", "fail", "empty", "nodir"}
    /\ LET s == Val(session)
       IN IF ~MountAsserts(s)
          THEN /\ out = "ok"
               /\ last' = Called("mount", session, Raised(s, "AssertionError"), <<>>)
               /\ UNCHANGED <<images, containers, session>>
          ELSE LET tr == ToolOf(MountCmd(s), out)
                   res == MountRet(s, tr.resp)
               IN /\ Ran(tr)
                  /\ last' = Called("mount", session, res, <<MountCmd(s)>>)
                  /\ session' = Some(res.sess)
    /\ UNCHANGED <<buildname, rest, clock, runs, log, created, commits>>

CallUnmount(out) ==
    /\ ~IsNone(session)
    /\ out \in {"ok", "fail"}
    /\ LET s == Val(session)
       IN IF ~UnmountAsserts(s)
          THEN /\ out = "ok"
               /\ last' = Called("unmount", session, Raised(s, "AssertionError"), <<>>)
               /\ UNCHANGED <<images, containers, session>>
          ELSE IF UnmountIsNoop(s)
          THEN /\ out = "ok"
               /\ last' = Called("unmount", session, Returned(s, None), <<>>)
               /\ UNCHANGED <<images, containers, session>>
          ELSE LET tr == ToolOf(UnmountCmd(s), out)
                   res == UnmountRet(s, tr.resp)
               IN /\ Ran(tr)
                  /\ last' = Called("unmount", session, res, <<UnmountCmd(s)>>)
                  /\ session' = Some(res.sess)
    /\ UNCHANGED <<buildname, rest, clock, runs, log, created, commits>>

\* (a commit whose output is lost leaves the object uncommitted: the caller
\* can repeat it, so the size of the store is capped)
CallCommit(name, tag, out) ==
    /\ ~IsNone(session)
    /\ Len(images) < MaxImages
    /\ out \in {"ok", "fail", "empty"}
    /\ LET s == Val(session)
       IN IF ~CommitAsserts(s, name, tag)
          THEN /\ out = "ok"
               /\ last' = Called("commit", session, Raised(s, "AssertionError"), <<>>)
               /\ UNCHANGED <<images, containers, session, commits>>
          ELSE LET tr == ToolOf(CommitCmd(s, name, tag), out)
                   res == CommitRet(s, name, tr.resp)
               IN /\ Ran(tr)
                  /\ last' = Called("commit", session, res, <<CommitCmd(s, name, tag)>>)
                  /\ session' = Some(res.sess)
                  /\ commits' = IF res.raised THEN commits ELSE commits + 1
    /\ UNCHANGED <<buildname, rest, clock, runs, log, created>>

CallTag(tag, out) ==
    /\ ~IsNone(session)
    /\ out \in {"ok", "fail"}
    /\ LET s == Val(session)
       IN IF ~TagAsserts(s)
          THEN /\ out = "ok"
               /\ last' = Called("tag", session, Raised(s, "AssertionError"), <<>>)
               /\ UNCHANGED <<images, containers, session>>
          ELSE LET tr == ToolOf(TagCmd(s, tag), out)
                   res == TagRet(s, tr.resp)
               IN /\ Ran(tr)
                  /\ last' = Called("tag", session, res, <<TagCmd(s, tag)>>)
                  /\ session' = Some(res.sess)
    /\ UNCHANGED <<buildname, rest, clock, runs, log, created, commits>>

CallConfig(confstr, out) ==
    /\ ~IsNone(session)
    /\ out \in {"ok", "fail"}
    /\ LET s == Val(session)
       IN IF ~ConfigAsserts(s, confstr)
          THEN /\ out = "ok"
               /\ last' = Called("config", session, Raised(s, "AssertionError"), <<>>)
               /\ UNCHANGED <<images, containers, session>>
          ELSE LET tr == ToolOf(ConfigCmd(s, confstr), out)
                   res == ConfigRet(s, tr.resp)
               IN /\ Ran(tr)
                  /\ last' = Called("config", session, res, <<ConfigCmd(s, confstr)>>)
                  /\ session' = Some(res.sess)
    /\ UNCHANGED <<buildname, rest, clock, runs, log, created, commits>>

CallRun(out) ==
    /\ ~IsNone(session)
    /\ out \in {"ok", "fail"}
    /\ LET s == Val(session)
           cmd == RunCmd(s, <<"true">>)
       IN IF ~RunAsserts(s)
          THEN /\ out = "ok"
               /\ last' = Called("run", session, Raised(s, "AssertionError"), <<>>)
               /\ UNCHANGED <<images, containers, session>>
          ELSE LET tr == ToolOf(cmd, out)
                   res == RunRet(s, tr.resp)
               IN /\ Ran(tr)
                  /\ last' = Called("run", session, res, <<cmd>>)
                  /\ session' = Some(res.sess)
    /\ UNCHANGED <<buildname, rest, clock, runs, log, created, commits>>

SessionNext ==
    \E out \in {"ok", "fail", "empty", "nodir"} :
        \/ \E from \in FromRefs : CallNew(from, out)
        \/ CallMount(out)
        \/ CallUnmount(out)
        \/ \E name \in CommitNames, tag \in CommitTags : CallCommit(name, tag, out)
        \/ \E tag \in ExtraTags : CallTag(tag, out)
        \/ \E confstr \in ConfStrs : CallConfig(confstr, out)
        \/ CallRun(out)

SessionSpec == Init /\ [][SessionNext]_vars

\* ------------------------------------------- concurrent invocations
\* Two cab processes build the same build name at once: no lock is taken
\* anywhere in Build.build, so the commands of the invocations reach the
\* tool in any order.  The log is not kept.
ConcInit ==
    /\ images \in InitStores
    /\ containers = <<>>
    /\ buildname \in BuildNames
    /\ clock = 0
    /\ runs = [r \in 1..MaxRuns |-> IdleRun]
    /\ log = <<>>
    /\ session = None
    /\ last = NoCall
    /\ created = 0
    /\ commits = 0
    /\ tracing = FALSE
    /\ overlapped = FALSE
    /\ inv = IdleBuild
    /\ lookup = NoLookup
    /\ removal = NoRemoval
    /\ parsing = NoParsing
    /\ destroy = NoDestroy
    /\ imgbuild = NoImgBuild
    /\ conf = NoConf

\* Build.build in a process of its own, whatever the other one does (two
\* processes at a time)
ConcStartRun(r) ==
    /\ r \in {1, 2}
    /\ runs[r].pc = "idle"
    /\ \A q \in 1..MaxRuns : q < r => runs[q].pc # "idle"
    /\ runs' = [runs EXCEPT ![r].pc = "has_raw"]
    /\ overlapped' = (overlapped \/ \E q \in 1..MaxRuns : Active(q))
    /\ UNCHANGED <<images, containers, buildname, clock, log, session, last, created,
                   commits, tracing, inv, lookup, removal, parsing, destroy, imgbuild, conf>>

ConcNext ==
    \/ Tick
    \/ \E r \in 1..MaxRuns :
        \/ ConcStartRun(r)
        \/ LookupRaw(r)
        \/ LookupBase(r)
        \/ RawFrom(r)
        \/ RawMount(r)
        \/ RawTransfer(r)
        \/ RawUnmount(r)
        \/ RawCommit(r)
        \/ RawTagLatest(r)
        \/ FinalFrom(r)
        \/ FinalMount(r)
        \/ FinalPostInstall(r)
        \/ FinalUnmount(r)
        \/ FinalCommit(r)
        \/ FinalTagLatest(r)

ConcSpec == ConcInit /\ [][ConcNext]_vars

\* ------------------------------------------------ the image lookups
\* Podman.get_images and the finders of Images are functions of the output
\* of "podman images --format json": they are applied to listings of up to
\* two records, each an Id with its Names.
OtherRaw == Localhost(GetBuildName(<<"other">>)) \o <<":", "latest-raw">>
DemoRaw(tag) == Localhost(GetBuildName(<<"demo">>)) \o <<":">> \o tag
NameLists ==
    { <<DemoRaw(<<"1-raw">>)>>,
      <<DemoRaw(<<"latest-raw">>)>>,
      <<DemoRaw(<<"1-raw">>), DemoRaw(<<"latest-raw">>)>>,
      <<DemoRaw(<<"1-raw">>), OtherRaw>>,
      <<Localhost(GetBuildName(<<"my", ".", "build">>)) \o <<":", "latest-raw">>>>,
      <<Localhost(BaseRef)>>,
      <<Localhost(BuilderRef), Localhost(BaseRef)>>,
      <<Localhost(BaseRef), Localhost(BuilderRef)>>,
      <<<<"localhost", "/", "fedora", ":", "latest">>>>,
      <<<<"localhost", "/", "fedora", ":", "latest">>, DemoRaw(<<"1-raw">>),
        <<"docker", ".", "io", "/", "library", "/", "busybox">>, OtherRaw>> }
Records == [Id : {1, 2}, Names : NameLists]
Listings == {<<>>} \cup {<<a>> : a \in Records} \cup {<<a, b>> : a \in Records, b \in Records}
LookupTags == {<<"latest-raw">>, <<"1-raw">>}

LookupInit ==
    /\ images = <<>>
    /\ containers = <<>>
    /\ buildname \in BuildNames
    /\ clock = 0
    /\ runs = [r \in 1..MaxRuns |-> IdleRun]
    /\ log = <<>>
    /\ session = None
    /\ last = NoCall
    /\ created = 0
    /\ commits = 0
    /\ tracing = TRUE
    /\ overlapped = FALSE
    /\ inv = IdleBuild
    /\ lookup \in {[NoLookup EXCEPT !.listing = l] : l \in Listings}
    /\ removal = NoRemoval
    /\ parsing = NoParsing
    /\ destroy = NoDestroy
    /\ imgbuild = NoImgBuild
    /\ conf = NoConf

LookupSame ==
    UNCHANGED <<images, containers, buildname, clock, runs, log, session, last, created,
                commits, tracing, overlapped, inv, removal, parsing, destroy, imgbuild, conf>>

\* Podman.get_images
ApplyGetImages ==
    /\ lookup.op = "none"
    /\ lookup' = [lookup EXCEPT !.op = "get_images", !.images = GetImages(lookup.listing)]
    /\ LookupSame

\* Images.find_build_image(name, tag)
ApplyFindBuildImage(tag) ==
    /\ lookup.op = "none"
    /\ lookup' = [lookup EXCEPT !.op = "find_build_image",
                                !.name = buildname, !.tag = tag,
                                !.found = FindBuildImage(lookup.listing, buildname, tag)]
    /\ LookupSame

\* Images.find_base_image(vendor, release), then img.get_real_name(vendor,
\* release) as the raw stage calls them
ApplyFindBaseImage ==
    /\ lookup.op = "none"
    /\ LET img == FindBaseImage(lookup.listing, Vendor, Release)
       IN lookup' = [lookup EXCEPT !.op = "find_base_image",
                                   !.name = Vendor, !.tag = Release,
                                   !.found = img,
                                   !.ref = IF IsNone(img) THEN None
                                           ELSE GetRealName(Val(img), Vendor, Release)]
    /\ LookupSame

LookupNext ==
    \/ ApplyGetImages
    \/ \E tag \in LookupTags : ApplyFindBuildImage(tag)
    \/ ApplyFindBaseImage

LookupSpec == LookupInit /\ [][LookupNext]_vars

\* ------------------------------------------------- Images.rm_image
\* The stores rm_image is called on: images of the build with one to three
\* references, raw images with the final images made from them, an image
\* with a reference parse does not take, and one another build has tagged.
BuildImage(tags, parent, stage) ==
    StoredImage([i \in 1..Len(tags) |-> DemoRaw(tags[i])], parent, stage)
RmStores ==
    { <<BuildImage(<<<<"latest">>>>, 0, "final")>>,
      <<BuildImage(<<<<"1">>, <<"latest">>>>, 0, "final")>>,
      <<BuildImage(<<<<"1-raw">>, <<"latest-raw">>>>, 0, "raw"),
        BuildImage(<<<<"1">>, <<"latest">>>>, 1, "final")>>,
      <<BuildImage(<<<<"1">>, <<"2">>, <<"latest">>>>, 0, "final")>>,
      <<BuildImage(<<<<"1-raw">>, <<"2-raw">>, <<"latest-raw">>>>, 0, "raw"),
        BuildImage(<<<<"1">>, <<"2">>, <<"latest">>>>, 1, "final")>>,
      <<StoredImage(<<DemoRaw(<<"1">>), <<"localhost", "/", "demo", ":", "x">>>>, 0, "final")>>,
      <<StoredImage(<<DemoRaw(<<"1">>), OtherRaw>>, 0, "raw")>> }

RmInit ==
    /\ images \in RmStores
    /\ containers = <<>>
    /\ buildname = <<"demo">>
    /\ clock = 0
    /\ runs = [r \in 1..MaxRuns |-> IdleRun]
    /\ log = <<>>
    /\ session = None
    /\ last = NoCall
    /\ created = 0
    /\ commits = 0
    /\ tracing = TRUE
    /\ overlapped = FALSE
    /\ inv = IdleBuild
    /\ lookup = NoLookup
    /\ removal = NoRemoval
    /\ parsing = NoParsing
    /\ destroy = NoDestroy
    /\ imgbuild = NoImgBuild
    /\ conf = NoConf

\* the loop of rm_image after the removal of one reference returned ret:
\* the references handled so far, and success
MutRmBreaksOnFailure(i, n, ret) == IF ret # 0 THEN n ELSE i + 1
RmContinue(i, n, ret) == i + 1
RmSuccess(success, ret) == IF ret # 0 THEN FALSE ELSE success

\* Podman.remove_image(str(name))
RemoveImageCmd(name) == Command("rmi", NameStr(name), 0, 0)

\* Images.rm_image(image) is called on an image Images.find_build_images
\* returned, as Build._remove_containers calls it
RmImage ==
    /\ removal.pc = "idle"
    /\ LET imgs == FindBuildImages(ToolImages(images, GetBuildName(buildname)), buildname)
       IN \E k \in 1..Len(imgs) :
            removal' = [pc |-> "loop", hashid |-> imgs[k].hashid,
                        names |-> imgs[k].names, i |-> 0,
                        success |-> TRUE, issued |-> <<>>]
    /\ UNCHANGED <<images, containers, buildname, clock, runs, log, session, last, created,
                   commits, tracing, overlapped, inv, lookup, parsing, destroy, imgbuild, conf>>

\* one turn of "for name in image.names"
RmImageName ==
    /\ removal.pc = "loop"
    /\ removal.i < Len(removal.names)
    /\ \E out \in {"ok", "fail"} :
        LET cmd == RemoveImageCmd(removal.names[removal.i + 1])
            tr == ToolExec(images, containers, cmd, out, By(0, "none"))
            ret == tr.resp.rc
        IN /\ images' = tr.images
           /\ removal' = [removal EXCEPT
                 !.i = RmContinue(removal.i, Len(removal.names), ret),
                 !.success = RmSuccess(removal.success, ret),
                 !.issued = Append(@, [ref |-> cmd.ref, rc |-> ret])]
    /\ UNCHANGED <<containers, buildname, clock, runs, log, session, last, created,
                   commits, tracing, overlapped, inv, lookup, parsing, destroy, imgbuild, conf>>

\* return success
RmImageReturn ==
    /\ removal.pc = "loop"
    /\ removal.i >= Len(removal.names)
    /\ removal' = [removal EXCEPT !.pc = "returned"]
    /\ UNCHANGED <<images, containers, buildname, clock, runs, log, session, last, created,
                   commits, tracing, overlapped, inv, lookup, parsing, destroy, imgbuild, conf>>

RmNext == RmImage \/ RmImageName \/ RmImageReturn

RmSpec == RmInit /\ [][RmNext]_vars

\* ------------------------------------------------------ Build._build
\* Build.build calls _build with do_build and do_container at their
\* defaults: the compile step (_perform_build), the container pipeline
\* (_build_container, the actions above for one invocation), and the push
\* to the registry if the configuration has one.
RegistryUrl == <<"registry", ".", "local", ":", "5000">>

\* Config.has_registry
MutHasRegistryAlways(registry) == TRUE
HasRegistry(registry) == ~IsNone(registry)

BuildSame == UNCHANGED <<buildname, clock, session, last, created, commits, tracing,
                         overlapped, lookup, removal, parsing, destroy, imgbuild, conf>>

\* _build: "if do_build:" and "if do_container:", the phase that comes
\* first and the phase that follows the compile step
MutPhaseAfterCompileAlways(do_container) == "container"
PhaseAfterCompile(do_container) == IF do_container THEN "container" ELSE "done"
PhaseFirst(do_build, do_container) ==
    IF do_build THEN "find_builder" ELSE PhaseAfterCompile(do_container)

\* Build.build is called; the configuration may name a registry
BuildStart ==
    /\ inv.pc = "idle"
    /\ \E registry \in {None, Some(RegistryUrl)} :
          inv' = [inv EXCEPT !.pc = "find_builder", !.registry = registry]
    /\ UNCHANGED <<images, containers, runs, log>>
    /\ BuildSame

\* _perform_build: Images.find_builder_image and img.get_real_name
CompileLookup ==
    /\ inv.pc = "find_builder"
    /\ \E out \in {"ok", "fail"} :
        LET cmd == Command("images", BuilderRef, 0, 0)
            tr == ToolExec(images, containers, cmd, out, By(0, "none"))
            img == FindBuilderImage(ToolImages(images, cmd.ref), Vendor, Release)
        IN /\ Sent(0, cmd, tr)
           /\ inv' =
                 IF tr.resp.rc # 0
                 THEN [inv EXCEPT !.pc = "failed", !.compiled = "failed", !.err = "PodmanError"]
                 ELSE IF IsNone(img)
                 THEN [inv EXCEPT !.pc = "failed", !.compiled = "failed", !.err = "BuildError"]
                 ELSE [inv EXCEPT !.pc = "compile",
                                  !.build_image = GetRealName(Val(img), Vendor, Release)]
    /\ UNCHANGED runs
    /\ BuildSame

\* _perform_build: podman run of the build image on the sources
CompileRun ==
    /\ inv.pc = "compile"
    /\ \E out \in {"ok", "fail"} :
        LET cmd == Command("build", IF IsNone(inv.build_image) THEN <<"None">>
                                    ELSE Val(inv.build_image), 0, 0)
            rc == IF out = "ok" THEN 0 ELSE 1
        IN /\ log' = Logged(Entry(0, cmd, Response(rc, <<>>, FALSE)))
           /\ inv' = IF rc # 0
                     THEN [inv EXCEPT !.pc = "failed", !.compiled = "failed",
                                      !.err = "BuildError"]
                     ELSE [inv EXCEPT !.pc = PhaseAfterCompile(inv.do_container),
                                      !.compiled = "ok"]
    /\ UNCHANGED <<images, containers, runs>>
    /\ BuildSame

\* _build: self._build_container(install_path) is entered
ContainerStart ==
    /\ inv.pc = "container"
    /\ runs[1].pc = "idle"
    /\ runs' = [runs EXCEPT ![1].pc = "has_raw"]
    /\ UNCHANGED <<images, containers, log, inv>>
    /\ BuildSame

\* _build: _build_container has returned True or raised
ContainerEnd ==
    /\ inv.pc = "container"
    /\ Ended(1)
    /\ inv' = IF runs[1].pc = "failed"
              THEN [inv EXCEPT !.pc = "failed", !.err = runs[1].err]
              ELSE IF HasRegistry(inv.registry) THEN [inv EXCEPT !.pc = "push"]
              ELSE [inv EXCEPT !.pc = "done"]
    /\ UNCHANGED <<images, containers, log, runs>>
    /\ BuildSame

\* _push_to_registry: Images.find_build_image_latest and the name to push
PushLookup ==
    /\ inv.pc = "push"
    /\ \E out \in {"ok", "fail"} :
        LET cmd == Command("images", GetBuildName(buildname), 0, 0)
            tr == ToolExec(images, containers, cmd, out, By(0, "none"))
            latest_img == FindBuildImage(ToolImages(images, cmd.ref), buildname, <<"latest">>)
            latest_name == IF IsNone(latest_img) THEN None
                           ELSE GetLatestImageName(Val(latest_img))
        IN /\ Sent(0, cmd, tr)
           /\ inv' =
                 IF tr.resp.rc # 0
                 THEN [inv EXCEPT !.pc = "failed", !.pushed = "raised", !.err = "PodmanError"]
                 ELSE IF IsNone(latest_img) \/ IsNone(latest_name)
                 THEN [inv EXCEPT !.pc = "failed", !.pushed = "raised",
                                  !.err = "AttributeError"]
                 ELSE [inv EXCEPT !.pc = "push_cmd",
                                  !.img_name = Some(Val(latest_name).repo \o <<"/">>
                                                    \o Val(latest_name).name \o <<":">>
                                                    \o Val(latest_name).tag)]
    /\ UNCHANGED runs
    /\ BuildSame

\* _push_to_registry: podman push; a failure is printed, not raised
PushCmd ==
    /\ inv.pc = "push_cmd"
    /\ \E out \in {"ok", "fail"} :
        LET cmd == Command("push", Val(inv.img_name), 0, 0)
            rc == IF out = "ok" THEN 0 ELSE 1
        IN /\ log' = Logged(Entry(0, cmd, Response(rc, <<>>, FALSE)))
           /\ inv' = [inv EXCEPT !.pc = "done",
                                 !.pushed = IF rc = 0 THEN "ok" ELSE "failed"]
    /\ UNCHANGED <<images, containers, runs>>
    /\ BuildSame

BuildNext ==
    \/ BuildStart
    \/ CompileLookup
    \/ CompileRun
    \/ ContainerStart
    \/ ContainerEnd
    \/ PushLookup
    \/ PushCmd
    \/ \E r \in 1..MaxRuns :
        \/ LookupRaw(r)
        \/ LookupBase(r)
        \/ RawFrom(r)
        \/ RawMount(r)
        \/ RawTransfer(r)
        \/ RawUnmount(r)
        \/ RawCommit(r)
        \/ RawTagLatest(r)
        \/ FinalFrom(r)
        \/ FinalMount(r)
        \/ FinalPostInstall(r)
        \/ FinalUnmount(r)
        \/ FinalCommit(r)
        \/ FinalTagLatest(r)

BuildSpec == Init /\ [][BuildNext]_vars

\* _build(do_build, do_container) called with any of its phases switched off
BuildCall ==
    /\ inv.pc = "idle"
    /\ \E do_build \in BOOLEAN, do_container \in BOOLEAN,
          registry \in {None, Some(RegistryUrl)} :
          inv' = [inv EXCEPT !.pc = PhaseFirst(do_build, do_container),
                             !.do_build = do_build, !.do_container = do_container,
                             !.registry = registry]
    /\ UNCHANGED <<images, containers, runs, log>>
    /\ BuildSame

PhaseNext ==
    \/ BuildCall
    \/ CompileLookup
    \/ CompileRun
    \/ ContainerStart
    \/ ContainerEnd
    \/ PushLookup
    \/ PushCmd
    \/ \E r \in 1..MaxRuns :
        \/ LookupRaw(r)
        \/ LookupBase(r)
        \/ RawFrom(r)
        \/ RawMount(r)
        \/ RawTransfer(r)
        \/ RawUnmount(r)
        \/ RawCommit(r)
        \/ RawTagLatest(r)
        \/ FinalFrom(r)
        \/ FinalMount(r)
        \/ FinalPostInstall(r)
        \/ FinalUnmount(r)
        \/ FinalCommit(r)
        \/ FinalTagLatest(r)

PhaseSpec == Init /\ [][PhaseNext]_vars

\* ------------------------------------------------------ Build.destroy
DestroyStores ==
    RmStores \cup
    { <<>>,
      <<StoredImage(<<Localhost(GetBuildName(<<"my", ".", "build">>)) \o <<":", "latest">>>>,
                    0, "final")>> }

DestroyInit ==
    /\ images \in DestroyStores
    /\ containers = <<>>
    /\ buildname \in BuildNames
    /\ clock = 0
    /\ runs = [r \in 1..MaxRuns |-> IdleRun]
    /\ log = <<>>
    /\ session = None
    /\ last = NoCall
    /\ created = 0
    /\ commits = 0
    /\ tracing = TRUE
    /\ overlapped = FALSE
    /\ inv = IdleBuild
    /\ lookup = NoLookup
    /\ removal = NoRemoval
    /\ parsing = NoParsing
    /\ destroy = NoDestroy
    /\ imgbuild = NoImgBuild
    /\ conf = NoConf

DestroySame ==
    UNCHANGED <<containers, buildname, clock, runs, log, session, last, created,
                commits, tracing, overlapped, inv, lookup, parsing, imgbuild, conf>>

RECURSIVE InsertByCreated(_, _)
\* an image put into a list that is sorted newest first, before the images
\* that are not newer than it (ids are handed out in the order of creation)
InsertByCreated(img, sorted) ==
    IF sorted = <<>> THEN <<img>>
    ELSE IF Head(sorted).hashid > img.hashid
         THEN <<Head(sorted)>> \o InsertByCreated(img, Tail(sorted))
         ELSE <<img>> \o sorted

RECURSIVE SortByCreated(_)
\* sorted(imgs, key=lambda img: img._created, reverse=True)
SortByCreated(imgs) ==
    IF imgs = <<>> THEN <<>> ELSE InsertByCreated(Head(imgs), SortByCreated(Tail(imgs)))

\* _destroy: the step after the install directory has been dealt with
AfterInstall(remove_containers) == IF remove_containers THEN "containers" ELSE "config"

\* _remove_containers: "if not Images.rm_image(img): return False"
MutRemoveContainersGoesOn(success) == TRUE
RemoveContainersGoesOn(success) == success

\* Build.destroy(config, name, remove_install, remove_containers)
DestroyCall(remove_install, remove_containers, install) ==
    /\ destroy.pc = "idle"
    /\ destroy' = [destroy EXCEPT
          !.pc = IF remove_install THEN "install" ELSE AfterInstall(remove_containers),
          !.remove_install = remove_install,
          !.remove_containers = remove_containers,
          !.install = install,
          !.store0 = images]
    /\ UNCHANGED <<images, removal>>
    /\ DestroySame

\* _remove_install
DestroyRemoveInstall(out) ==
    /\ destroy.pc = "install"
    /\ out \in {"ok", "fail"}
    /\ IF destroy.install = "absent"
       THEN /\ out = "ok"
            /\ destroy' = [destroy EXCEPT !.pc = AfterInstall(destroy.remove_containers)]
       ELSE IF out = "ok"
       THEN destroy' = [destroy EXCEPT !.pc = AfterInstall(destroy.remove_containers),
                                       !.install = "removed"]
       ELSE destroy' = [destroy EXCEPT !.pc = "returned", !.failed = "install",
                                       !.ret = Some(FALSE)]
    /\ UNCHANGED <<images, removal>>
    /\ DestroySame

\* _remove_containers: the images of the build, newest first
DestroyFindImages(out) ==
    /\ destroy.pc = "containers"
    /\ out \in {"ok", "fail"}
    /\ IF out = "fail"
       THEN destroy' = [destroy EXCEPT !.pc = "raised"]
       ELSE destroy' = [destroy EXCEPT
               !.pc = "rm_loop",
               !.imgs = SortByCreated(
                           FindBuildImages(ToolImages(images, GetBuildName(buildname)),
                                           buildname))]
    /\ UNCHANGED <<images, removal>>
    /\ DestroySame

\* _remove_containers: Images.rm_image(img) is called on the next image
DestroyRmImage ==
    /\ destroy.pc = "rm_loop"
    /\ destroy.k < Len(destroy.imgs)
    /\ destroy' = [destroy EXCEPT !.pc = "rm_image"]
    /\ removal' = [pc |-> "loop", hashid |-> destroy.imgs[destroy.k + 1].hashid,
                   names |-> destroy.imgs[destroy.k + 1].names, i |-> 0,
                   success |-> TRUE, issued |-> <<>>]
    /\ UNCHANGED images
    /\ DestroySame

\* _remove_containers: rm_image has returned
DestroyRmReturned ==
    /\ destroy.pc = "rm_image"
    /\ removal.pc = "returned"
    /\ destroy' = IF RemoveContainersGoesOn(removal.success)
                  THEN [destroy EXCEPT !.pc = "rm_loop", !.k = @ + 1,
                                       !.issued = @ \o removal.issued]
                  ELSE [destroy EXCEPT !.pc = "returned", !.failed = "image",
                                       !.issued = @ \o removal.issued,
                                       !.ret = Some(FALSE)]
    /\ removal' = NoRemoval
    /\ UNCHANGED images
    /\ DestroySame

\* _remove_containers returns True
DestroyContainersDone ==
    /\ destroy.pc = "rm_loop"
    /\ destroy.k >= Len(destroy.imgs)
    /\ destroy' = [destroy EXCEPT !.pc = "config"]
    /\ UNCHANGED <<images, removal>>
    /\ DestroySame

\* return self._config.remove_build(self._name)
DestroyRemoveBuild ==
    /\ destroy.pc = "config"
    /\ destroy' = [destroy EXCEPT !.pc = "returned", !.config = FALSE, !.ret = Some(TRUE)]
    /\ UNCHANGED <<images, removal>>
    /\ DestroySame

DestroyNext ==
    \/ \E ri \in BOOLEAN, rc \in BOOLEAN, install \in {"present", "absent"} :
          DestroyCall(ri, rc, install)
    \/ \E out \in {"ok", "fail"} : DestroyRemoveInstall(out) \/ DestroyFindImages(out)
    \/ DestroyRmImage
    \/ RmImageName
    \/ RmImageReturn
    \/ DestroyRmReturned
    \/ DestroyContainersDone
    \/ DestroyRemoveBuild

DestroySpec == DestroyInit /\ [][DestroyNext]_vars

\* ------------------------------------------------------- ImageBuilder
LeapRef == <<"opensuse", "/", "leap", ":", "15", ".", "2">>
SeedName == <<"cab", "/", "seed", "/", "suse">>
SeedTag == <<"leap-15", ".", "2">>
SeedRef == SeedName \o <<":">> \o SeedTag

RECURSIVE FindSeedImageLoop(_)
FindSeedImageLoop(images_lst) ==
    IF images_lst = <<>> THEN None
    ELSE LET image == Head(images_lst)
         IN IF \E i \in 1..Len(image.names) :
                   /\ image.names[i].name = <<"suse">>
                   /\ image.names[i].tag = SeedTag
            THEN Some(image)
            ELSE FindSeedImageLoop(Tail(images_lst))

\* Images.find_seed_image, on the listing of cab/seed/suse:leap-15.2
FindSeedImage(entries) == FindSeedImageLoop(GetImages(entries))

\* Images.has_seed_image
HasSeedImage(entries) == ~IsNone(FindSeedImage(entries))

\* set_author and set_label come to config("--label <key>='<value>'")
Label(key) == [op |-> "config", arg |-> <<"--label", key>>]
Conf(arg) == [op |-> "config", arg |-> arg]
InContainer(cmd) == [op |-> "run", arg |-> cmd]

\* what each method does between the constructor and the commit
Program(kind) ==
    IF kind = "seed"
    THEN << Label("author"),
            InContainer(<<"zypper", "refresh">>),
            InContainer(<<"zypper", "install">>) >>
    ELSE IF kind = "base"
    THEN << Label("author"), Label("cab.ceph-vendor"), Label("cab.cab-release"),
            InContainer(<<"mkdir", "sources">>),
            InContainer(<<"mkdir", "bin">>),
            Conf(<<"--workingdir", "sources">>),
            InContainer(<<"install-deps">>),
            InContainer(<<"install-requirements">>),
            Conf(<<"--workingdir", "/">>),
            InContainer(<<"rm", "build">>) >>
    ELSE << Label("author"),
            InContainer(<<"mkdir", "build">>),
            InContainer(<<"useradd">>),
            InContainer(<<"chown">>),
            Conf(<<"--user">>),
            InContainer(<<"mkdir", "src">>),
            InContainer(<<"mkdir", "ccache">>),
            InContainer(<<"mkdir", "bin">>),
            InContainer(<<"mkdir", "out">>),
            Conf(<<"--workingdir", "build">>),
            Conf(<<"--volume">>),
            Conf(<<"--entrypoint">>) >>

\* the image each method starts from, and the name and tag it commits
FromOf(kind) ==
    IF kind = "seed" THEN LeapRef ELSE IF kind = "base" THEN SeedRef ELSE BaseRef
NameOf(kind) ==
    IF kind = "seed" THEN SeedName
    ELSE IF kind = "base" THEN <<"cab", "/", "base", "/">> \o Vendor
    ELSE <<"cab", "/", "builder", "/">> \o Vendor
TagOf(kind) == IF kind = "seed" THEN SeedTag ELSE Release

\* the stores the methods can find: the distribution image alone, with the
\* seed image, and with the seed and the base image
ImgStores ==
    { <<StoredImage(<<Localhost(LeapRef)>>, 0, "other")>>,
      <<StoredImage(<<Localhost(LeapRef)>>, 0, "other"),
        StoredImage(<<Localhost(SeedRef)>>, 1, "seed")>>,
      <<StoredImage(<<Localhost(LeapRef)>>, 0, "other"),
        StoredImage(<<Localhost(SeedRef)>>, 1, "seed"),
        StoredImage(<<Localhost(BaseRef)>>, 2, "base")>> }

ImgInit ==
    /\ images \in ImgStores
    /\ containers = <<>>
    /\ buildname = <<"demo">>
    /\ clock = 0
    /\ runs = [r \in 1..MaxRuns |-> IdleRun]
    /\ log = <<>>
    /\ session = None
    /\ last = NoCall
    /\ created = 0
    /\ commits = 0
    /\ tracing = TRUE
    /\ overlapped = FALSE
    /\ inv = IdleBuild
    /\ lookup = NoLookup
    /\ removal = NoRemoval
    /\ parsing = NoParsing
    /\ destroy = NoDestroy
    /\ imgbuild = NoImgBuild
    /\ conf = NoConf

ImgSame ==
    UNCHANGED <<buildname, clock, runs, session, last, created, commits, tracing,
                overlapped, inv, lookup, removal, parsing, destroy, conf>>

\* build_seed_image(force), build_base_image(...), build_builder_image(...)
ImgCall(kind) ==
    /\ imgbuild.pc = "idle"
    /\ imgbuild' = [imgbuild EXCEPT !.kind = kind,
                                    !.pc = IF kind = "seed" THEN "has_seed" ELSE "from"]
    /\ UNCHANGED <<images, containers, log>>
    /\ ImgSame

\* build_seed_image: "if Images.has_seed_image() and not force: return"
ImgHasSeed(force, out) ==
    /\ imgbuild.pc = "has_seed"
    /\ out \in {"ok", "fail"}
    /\ LET cmd == Command("images", SeedRef, 0, 0)
           tr == ToolExec(images, containers, cmd, out, By(0, "none"))
       IN /\ Sent(0, cmd, tr)
          /\ imgbuild' =
                IF tr.resp.rc # 0
                THEN [imgbuild EXCEPT !.pc = "raised", !.err = "PodmanError"]
                ELSE IF HasSeedImage(ToolImages(images, cmd.ref)) /\ ~force
                THEN [imgbuild EXCEPT !.pc = "returned"]
                ELSE [imgbuild EXCEPT !.pc = "from"]
    /\ ImgSame

\* working_container = Buildah(<image>)
ImgFrom(out) ==
    /\ imgbuild.pc = "from"
    /\ out \in {"ok", "fail", "empty"}
    /\ LET s == NewSession(FromOf(imgbuild.kind))
           tr == ToolExec(images, containers, CreateCmd(s), out, By(0, "none"))
           res == CreateRet(s, tr.resp)
       IN /\ CreateAsserts(s)
          /\ Sent(0, CreateCmd(s), tr)
          /\ imgbuild' = IF res.raised
                         THEN [imgbuild EXCEPT !.pc = "raised", !.err = res.err]
                         ELSE [imgbuild EXCEPT !.pc = "steps", !.sess = Some(res.sess)]
    /\ ImgSame

\* one line between the constructor and the commit: config() raises when
\* its command fails, what run() returns is not looked at
ImgStep(out) ==
    /\ imgbuild.pc = "steps"
    /\ imgbuild.i < Len(Program(imgbuild.kind))
    /\ out \in {"ok", "fail"}
    /\ LET s == Val(imgbuild.sess)
           step == Program(imgbuild.kind)[imgbuild.i + 1]
       IN IF step.op = "config"
          THEN LET cmd == ConfigCmd(s, step.arg)
                   tr == ToolExec(images, containers, cmd, out, By(0, "none"))
                   res == ConfigRet(s, tr.resp)
               IN /\ ConfigAsserts(s, step.arg)
                  /\ Sent(0, cmd, tr)
                  /\ imgbuild' = IF res.raised
                                 THEN [imgbuild EXCEPT !.pc = "raised", !.err = res.err]
                                 ELSE [imgbuild EXCEPT !.i = @ + 1]
          ELSE LET cmd == RunCmd(s, step.arg)
                   tr == ToolExec(images, containers, cmd, out, By(0, "none"))
                   res == RunRet(s, tr.resp)
               IN /\ RunAsserts(s)
                  /\ Sent(0, cmd, tr)
                  /\ imgbuild' = IF res.raised
                                 THEN [imgbuild EXCEPT !.pc = "raised", !.err = res.err]
                                 ELSE [imgbuild EXCEPT !.i = @ + 1]
    /\ ImgSame

\* hashid = working_container.commit(<name>, <tag>); return hashid
ImgCommit(out) ==
    /\ imgbuild.pc = "steps"
    /\ imgbuild.i >= Len(Program(imgbuild.kind))
    /\ out \in {"ok", "fail", "empty"}
    /\ LET s == Val(imgbuild.sess)
           name == NameOf(imgbuild.kind)
           tag == TagOf(imgbuild.kind)
           cmd == CommitCmd(s, name, tag)
           tr == ToolExec(images, containers, cmd, out, By(0, imgbuild.kind))
           res == CommitRet(s, name, tr.resp)
       IN /\ CommitAsserts(s, name, tag)
          /\ Sent(0, cmd, tr)
          /\ imgbuild' = IF res.raised
                         THEN [imgbuild EXCEPT !.pc = "raised", !.err = res.err,
                                               !.sess = Some(res.sess)]
                         ELSE [imgbuild EXCEPT !.pc = "returned",
                                               !.sess = Some(res.sess)]
    /\ ImgSame

ImgNext ==
    \/ \E kind \in {"seed", "base", "builder"} : ImgCall(kind)
    \/ \E out \in {"ok", "fail", "empty"} :
          \/ \E force \in BOOLEAN : ImgHasSeed(force, out)
          \/ ImgFrom(out)
          \/ ImgStep(out)
          \/ ImgCommit(out)

ImgSpec == ImgInit /\ [][ImgNext]_vars

\* -------------------------------------------------------------- config.py
\* Paths are absolute and normalised, so that Path(s).expanduser() and
\* str(path) keep the text; str(None) is "None".
PathStr(p) == IF IsNone(p) THEN <<"None">> ELSE Val(p)
PathOf(s) == Some(s)

ConfPaths == {<<"/", "a">>, <<"/", "b">>}
ConfSizes == {<<"10G">>, <<"20G">>}
ConfUrls == {<<>>, <<"reg", ":", "5000">>}

\* Config._write_config: the dictionary that goes to config.yaml; a key
\* that is not written is None
WriteConfig(c) ==
    [installs |-> Some([path |-> PathStr(c.installs_dir)]),
     ccache |-> IF ~IsNone(c.ccache_dir)
                THEN Some([path |-> PathStr(c.ccache_dir),
                           size |-> c.ccache_default_size])
                ELSE None,
     registry |-> IF ~IsNone(c.registry_url) /\ Val(c.registry_url) # <<>>
                  THEN Some([url |-> Val(c.registry_url),
                             secure |-> c.registry_is_secure])
                  ELSE None]

\* the keys of config_dict['global']
GlobalKeys(g) == {k \in {"installs", "ccache", "registry"} : ~IsNone(g[k])}

\* Config._read_config on the dictionary of config.yaml, from the fields
\* __init__ has set: the fields afterwards
ReadCcache(g, c) ==
    IF "ccache" \in GlobalKeys(g)
    THEN LET c1 == [c EXCEPT !.ccache_dir = PathOf(Val(g.ccache).path)]
         IN IF "size" \in GlobalKeys(g)
            THEN [c1 EXCEPT !.ccache_default_size = Val(g.ccache).size]
            ELSE c1
    ELSE c
ReadInstalls(g, c) ==
    IF "installs" \in GlobalKeys(g)
    THEN [c EXCEPT !.installs_dir = PathOf(Val(g.installs).path)]
    ELSE c
ReadRegistry(g, c) ==
    IF "registry" \in GlobalKeys(g)
    THEN [c EXCEPT !.registry_url = Some(Val(g.registry).url),
                   !.registry_is_secure = Val(g.registry).secure]
    ELSE c
ReadConfig(g) == ReadRegistry(g, ReadInstalls(g, ReadCcache(g, NewConfig)))

ConfSame ==
    UNCHANGED <<images, containers, buildname, clock, runs, log, session, last, created,
                commits, tracing, overlapped, inv, lookup, removal, parsing, destroy,
                imgbuild>>

\* Config.set_installs_dir
SetInstallsDir(installs_dir) ==
    /\ conf.pc = "setting"
    /\ conf' = [conf EXCEPT !.obj.installs_dir = PathOf(installs_dir)]
    /\ ConfSame

\* Config.set_ccache_dir: an empty string unsets it
SetCcacheDir(ccache_str) ==
    /\ conf.pc = "setting"
    /\ conf' = [conf EXCEPT !.obj.ccache_dir =
                    IF ccache_str = <<>> THEN None ELSE PathOf(ccache_str)]
    /\ ConfSame

\* Config.set_ccache_size
SetCcacheSize(sz) ==
    /\ conf.pc = "setting"
    /\ conf' = [conf EXCEPT !.obj.ccache_default_size = sz]
    /\ ConfSame

\* Config.set_registry
SetRegistry(registry, secure_registry) ==
    /\ conf.pc = "setting"
    /\ conf' = [conf EXCEPT !.obj.registry_url = Some(registry),
                            !.obj.registry_is_secure = secure_registry]
    /\ ConfSame

\* Config.commit
ConfCommit ==
    /\ conf.pc = "setting"
    /\ conf' = [conf EXCEPT !.pc = "written", !.file = Some(WriteConfig(conf.obj))]
    /\ ConfSame

\* Config(): __init__ reads the file that was written
ConfLoad ==
    /\ conf.pc = "written"
    /\ LET c == ReadConfig(Val(conf.file))
       IN conf' = [conf EXCEPT !.pc = "loaded", !.loaded = c,
                               !.has_config = ~IsNone(c.installs_dir)]
    /\ ConfSame

ConfNext ==
    \/ \E p \in ConfPaths : SetInstallsDir(p)
    \/ \E p \in ConfPaths \cup {<<>>} : SetCcacheDir(p)
    \/ \E sz \in ConfSizes : SetCcacheSize(sz)
    \/ \E u \in ConfUrls, s \in BOOLEAN : SetRegistry(u, s)
    \/ ConfCommit
    \/ ConfLoad

ConfSpec == Init /\ [][ConfNext]_vars

\* ----------------------------- ContainerImageName.parse and __str__
\* the characters told apart by the pattern: a word character, ".", the
\* two delimiters, and the newline
Alphabet == {"a", ".", "/", ":", "\n"}
Samples ==
    {<<"a", "/", "b", "/", "x", "/", "c", ":", "d">>,
     <<"a", "/", "b", "/", "c", ":", "d", "\n">>,
     <<"a", ".", "a", "/", "b", "/", "c", ":", "d", ".", "a">>}
NameStrings == UNION {[1..n -> Alphabet] : n \in 0..MaxNameLen} \cup Samples

ParseInit ==
    /\ images = <<>>
    /\ containers = <<>>
    /\ buildname = <<"demo">>
    /\ clock = 0
    /\ runs = [r \in 1..MaxRuns |-> IdleRun]
    /\ log = <<>>
    /\ session = None
    /\ last = NoCall
    /\ created = 0
    /\ commits = 0
    /\ tracing = TRUE
    /\ overlapped = FALSE
    /\ inv = IdleBuild
    /\ lookup = NoLookup
    /\ removal = NoRemoval
    /\ parsing \in {[NoParsing EXCEPT !.s = s] : s \in NameStrings}
    /\ destroy = NoDestroy
    /\ imgbuild = NoImgBuild
    /\ conf = NoConf

ParseSame ==
    UNCHANGED <<images, containers, buildname, clock, runs, log, session, last, created,
                commits, tracing, overlapped, inv, lookup, removal, destroy, imgbuild, conf>>

\* n = ContainerImageName.parse(s)
ApplyParse ==
    /\ parsing.op = "none"
    /\ parsing' = [parsing EXCEPT !.op = "parse", !.result = Parse(parsing.s)]
    /\ ParseSame

\* str(n)
ApplyStr ==
    /\ parsing.op = "parse"
    /\ ~IsNone(parsing.result)
    /\ parsing' = [parsing EXCEPT !.op = "str",
                                  !.text = Some(NameStr(Val(parsing.result)))]
    /\ ParseSame

ParseNext == ApplyParse \/ ApplyStr

ParseSpec == ParseInit /\ [][ParseNext]_vars

\* ------------------------------------------------------ claim helpers
\* ---------------------------------------------------------------------
\* The properties.  What the store holds is read off the stored names
\* themselves, not through the lookup code.
LatestRawRef == GetBuildName(buildname) \o <<":", "latest-raw">>
LatestRef == GetBuildName(buildname) \o <<":", "latest">>
StoreHas(ref) == \E i \in 1..Len(images) : HasName(images[i], Localhost(ref))
StoreImage(ref) ==
    IF StoreHas(ref) THEN CHOOSE i \in 1..Len(images) : HasName(images[i], Localhost(ref))
    ELSE 0
\* the invocation whose commands the log holds
Current(r) == runs[r].pc # "idle" /\ \A q \in 1..MaxRuns : q > r => runs[q].pc = "idle"
\* the image a stage of an invocation committed, 0 if none
Committed(r, stage) ==
    LET c == {i \in 1..Len(images) : images[i].run = r /\ images[i].stage = stage}
    IN IF c = {} THEN 0 ELSE CHOOSE i \in c : TRUE
\* the commands of the log other than the listings
Commands == SelectSeq(log, LAMBDA e : e.op # "images")
Ops(es) == [i \in 1..Len(es) |-> es[i].op]
IsPrefix(a, b) == Len(a) <= Len(b) /\ \A i \in 1..Len(a) : a[i] = b[i]

\* C1: whenever an image of the store carries cab-builds/<build>:latest-raw,
\* the raw stage creates its working container from that reference, never
\* from the base image.
C1_RawStageUsesLatestRaw ==
    \A r \in 1..MaxRuns :
        (runs[r].pc = "from" /\ StoreHas(LatestRawRef))
            => runs[r].base_image = LatestRawRef

\* C2: with no image tagged latest-raw for the build and no base image of the
\* vendor/release, the raw stage ends with NoAvailableImageError (an error of
\* a listing aside) before any working container exists: no from, mount,
\* commit or tag is issued and the store stays as it is.
C2_NoImageNoContainer ==
    \A r \in 1..MaxRuns :
        (Current(r) /\ ~StoreHas(LatestRawRef) /\ ~StoreHas(BaseRef)) =>
            /\ runs[r].pc \in {"has_raw", "find_base", "failed"}
            /\ Commands = <<>>
            /\ containers = <<>>
            /\ \A i \in 1..Len(images) : images[i].stage \notin {"raw", "final"}
            /\ ~StoreHas(LatestRef)
            /\ runs[r].pc = "failed" =>
                  /\ runs[r].err \in {"NoAvailableImageError", "PodmanError"}
                  /\ runs[r].err = "PodmanError" <=> log[Len(log)].rc # 0
                  /\ runs[r].err = "NoAvailableImageError" => Len(log) = 2

C2_Witness ==
    \E r \in 1..MaxRuns :
        /\ Current(r) /\ ~StoreHas(LatestRawRef) /\ ~StoreHas(BaseRef)
        /\ Len(images) > 0
        /\ runs[r].pc = "failed" /\ runs[r].err = "NoAvailableImageError"

\* C3: the commands of a first run in which every tool call succeeds come in
\* the order from <base>, mount, transfer, unmount, commit <build>:<ts>-raw,
\* tag latest-raw, from <build>:<ts>-raw, mount, (post-install), unmount,
\* commit <build>:<ts>, tag latest; two working containers are created, and
\* every command of the final stage comes after the tag of the raw stage.
\* (The listings the lookups issue before the first from are left out.)
ExpectedOps(post) ==
    <<"from", "mount", "rsync", "unmount", "commit", "tag", "from", "mount">>
    \o (IF post THEN <<"run">> ELSE <<>>) \o <<"unmount", "commit", "tag">>
AllSucceeded ==
    \A i \in 1..Len(log) :
        /\ log[i].rc = 0
        /\ log[i].op \in {"from", "mount", "commit"} => Len(log[i].out) = 1
C3_FirstRunOrder ==
    (Current(1) /\ AllSucceeded /\ runs[1].pc # "failed") =>
        LET c == Commands
            ts == runs[1].image_date
            build == GetBuildName(buildname)
        IN /\ \E post \in BOOLEAN : IsPrefix(Ops(c), ExpectedOps(post))
           /\ Len(c) >= 1 => c[1].ref = Localhost(BaseRef)
           /\ \A i \in 1..Len(c) : i <= 6 => c[i].op \in {"from", "tag"} \/ c[i].wc = 1
           /\ \A i \in 1..Len(c) : i > 7 => c[i].op \in {"from", "tag"} \/ c[i].wc = 2
           /\ Len(c) >= 5 => c[5].ref = build \o <<":">> \o ts \o <<"-raw">>
           /\ Len(c) >= 6 => c[6].ref = build \o <<":", "latest-raw">>
                             /\ c[6].img = c[5].out[1]
           /\ Len(c) >= 7 => c[7].ref = build \o <<":">> \o ts \o <<"-raw">>
                             /\ containers[2].img = c[5].out[1]
           /\ runs[1].pc = "done" =>
                 /\ \E post \in BOOLEAN : Ops(c) = ExpectedOps(post)
                 /\ c[Len(c) - 1].op = "commit"
                 /\ c[Len(c) - 1].ref = build \o <<":">> \o ts
                 /\ c[Len(c)].ref = build \o <<":", "latest">>
                 /\ c[Len(c)].img = c[Len(c) - 1].out[1]
                 /\ Len(containers) = 2

C3_Witness ==
    /\ Current(1) /\ runs[1].pc = "done" /\ Len(Commands) = 12
    /\ buildname = <<"demo">>

\* C4: after a run that completed, the next run takes the incremental path:
\* its from source is <build>:latest-raw and resolves to the raw image the
\* previous run committed.
C4_SecondRunIncremental ==
    \A r \in 2..MaxRuns :
        (runs[r - 1].pc = "done" /\ runs[r].pc = "from") =>
            /\ runs[r].base_image = LatestRawRef
            /\ Resolve(images, runs[r].base_image) = Committed(r - 1, "raw")

\* C5: once commit() has succeeded, every call of mount(), unmount() or
\* config() raises before any command is sent and leaves the mount path, the
\* committed flag, the hash and the name as they were.
C5_NoMountAfterCommit ==
    (last.op \in {"mount", "unmount", "config"} /\ Val(last.before).committed) =>
        /\ last.raised
        /\ last.sent = <<>>
        /\ session = last.before

C5_Witness ==
    /\ last.op = "mount" /\ Val(last.before).committed /\ last.raised
    /\ commits = 1

\* C6: tag() on a session whose commit() has not returned raises before any
\* command is sent; a tag command is sent only after a commit that returned.
C6_TagNeedsCommit ==
    last.op = "tag" =>
        /\ commits = 0 => (last.raised /\ last.sent = <<>> /\ session = last.before)
        /\ last.sent # <<>> => (commits = 1 /\ Val(last.before).committed)

\* tag() after the only commit() of the session raised (its output was lost)
C6_Witness ==
    /\ last.op = "tag" /\ last.raised /\ last.sent = <<>>
    /\ created = 1 /\ commits = 0
    /\ \E i \in 1..Len(images) : images[i].stage = "other"

\* C7: at most one commit() of a session returns; a commit() after it raises
\* without a command, and the recorded hash and name never change again.
C7_CommitOnce ==
    /\ commits <= 1
    /\ (last.op = "commit" /\ Val(last.before).committed) =>
          (last.raised /\ last.sent = <<>>)
    /\ (last.op \notin {"none", "new"} /\ Val(last.before).committed) =>
          /\ Val(session).committed
          /\ Val(session).hashid = Val(last.before).hashid
          /\ Val(session).name = Val(last.before).name

C7_Witness ==
    /\ last.op = "commit" /\ Val(last.before).committed /\ last.raised
    /\ commits = 1

\* C8 as claimed: commit() is accepted only while no mount path is recorded,
\* so no session is both committed and mounted.
C8_CommitOnlyUnmounted ==
    /\ (last.op = "commit" /\ ~last.raised) => IsNone(Val(last.before).mount_path)
    /\ ~IsNone(session) => ~(Val(session).committed /\ ~IsNone(Val(session).mount_path))

\* C8 as amended: commit() asks only that the session is ready and not yet
\* committed: it is accepted with a mount path recorded as well and leaves
\* the mount path as it is; after the commit the mount path never changes, so
\* a session is committed and mounted exactly when it was mounted at commit.
C8_CommitKeepsMountPath ==
    /\ (last.op = "commit" /\ last.sent = <<>>) =>
          (Val(last.before).committed \/ ~IsReady(Val(last.before)))
    /\ last.op = "commit" => Val(session).mount_path = Val(last.before).mount_path
    /\ (last.op \notin {"none", "new"} /\ Val(last.before).committed) =>
          Val(session).mount_path = Val(last.before).mount_path

C8_Witness ==
    /\ last.op = "commit" /\ ~last.raised
    /\ ~IsNone(Val(last.before).mount_path)
    /\ Val(session).committed /\ ~IsNone(Val(session).mount_path)

\* C9: after the first failing step of an invocation no further command is
\* issued by it: a command that exited non-zero is the last of the log, the
\* invocation has ended with an exception, and nothing is unmounted or
\* removed after it.
C9_NothingAfterFailure ==
    \A r \in 1..MaxRuns :
        Current(r) =>
            /\ \A i \in 1..Len(log) : log[i].rc # 0 =>
                  (i = Len(log) /\ runs[r].pc = "failed" /\ runs[r].err # "")
            /\ \A i \in 1..Len(log) : log[i].run = r
            /\ runs[r].pc = "failed" => runs[r].err # ""
            /\ \A i \in 1..Len(log) : log[i].op \notin {"rm", "rmi"}

C9_Witness ==
    \E r \in 1..MaxRuns :
        /\ Current(r) /\ runs[r].pc = "failed" /\ runs[r].at = "f_post"
        /\ log[Len(log)].op = "run" /\ log[Len(log)].rc # 0
        /\ containers[Len(containers)].mounted
        /\ Committed(r, "raw") # 0

\* C10: when a run failed after its raw image was committed (at the tag of
\* latest-raw or in the final stage), the next run creates its raw-stage
\* container from that raw image.
C10_NextRunReusesRaw ==
    \A r \in 2..MaxRuns :
        ( /\ runs[r - 1].pc = "failed"
          /\ runs[r - 1].at \in {"tag", "f_from", "f_mount", "f_post", "f_unmount",
                                 "f_commit", "f_tag"}
          /\ runs[r].pc = "mount" ) =>
            containers[Val(Val(runs[r].sess).wc)].img = Committed(r - 1, "raw")

\* C11 as claimed: the working container of the final stage is created from
\* the raw image the same invocation committed.
C11_FinalFromOwnRaw ==
    \A r \in 1..MaxRuns :
        runs[r].pc = "f_mount" =>
            containers[Val(Val(runs[r].sess).wc)].img = Committed(r, "raw")

\* C11 as amended: the final stage names its source <build>:<ts>-raw, it
\* does not use the hash the commit returned.  The container is created from
\* the invocation's own raw image unless another invocation has committed a
\* raw image after it (under the same timestamp, taking the name over), and
\* then from that one; with invocations that do not overlap it is always the
\* invocation's own.
C11_FinalFromNamedRaw ==
    \A r \in 1..MaxRuns :
        runs[r].pc = "f_mount" =>
            LET own == Committed(r, "raw")
                got == containers[Val(Val(runs[r].sess).wc)].img
            IN /\ Val(runs[r].sess).from = GetBuildName(buildname) \o <<":">>
                                             \o RawTag(runs[r].image_date)
               /\ own # 0
               /\ got # own =>
                     /\ overlapped
                     /\ got > own
                     /\ images[got].stage = "raw" /\ images[got].run # r
               /\ ~overlapped => got = own

C11_Witness ==
    \E r \in 1..MaxRuns :
        /\ runs[r].pc = "f_mount"
        /\ overlapped
        /\ containers[Val(Val(runs[r].sess).wc)].img = Committed(r, "raw")
        /\ \E i \in 1..Len(images) : images[i].stage = "raw" /\ images[i].run # r

\* C12: in a run that got as far as its final commit, the raw image was
\* committed as <build>:T-raw and the final image as <build>:T for the same
\* timestamp T, the one the raw stage took from the clock and handed on;
\* T is a single word, and the two references differ.
Commits == SelectSeq(log, LAMBDA e : e.op = "commit" /\ e.rc = 0)
C12_OneTimestamp ==
    \A r \in 1..MaxRuns :
        (Current(r) /\ runs[r].pc \in {"f_tag", "done"}) =>
            LET T == runs[r].image_date
                name == GetBuildName(buildname)
            IN /\ Len(Commits) = 2
               /\ Len(T) = 1 /\ IsWord(T[1])
               /\ Commits[1].ref = name \o <<":">> \o T \o <<"-raw">>
               /\ Commits[2].ref = name \o <<":">> \o T
               /\ Commits[1].wc # Commits[2].wc
               /\ images[Commits[1].out[1]].stage = "raw"
               /\ images[Commits[2].out[1]].stage = "final"
               /\ HasName(images[Commits[2].out[1]], Localhost(Commits[2].ref))

C12_Witness ==
    /\ Current(2) /\ runs[2].pc = "done" /\ runs[1].pc = "done"
    /\ runs[2].image_date = <<"1">>
    /\ Len(Commits) = 2

\* C13: past the post-install step of the final stage, post-install.sh has
\* been run in the container once if the mount root held it (the raw image
\* the container was made from has it) and not at all otherwise, the run
\* exited with 0, and the file is gone from the container; the stage fails
\* at this step only when the script was run and failed; and no image
\* committed by a final stage has post-install.sh in its root.
PostRuns == SelectSeq(log, LAMBDA e : e.op = "run")
C13_PostInstallOnce ==
    /\ \A i \in 1..Len(images) : images[i].stage = "final" => ~images[i].post
    /\ \A r \in 1..MaxRuns :
          Current(r) =>
            /\ runs[r].pc \in {"f_unmount", "f_commit", "f_tag", "done"} =>
                  LET wc == Val(Val(runs[r].sess).wc)
                  IN /\ ~containers[wc].post
                     /\ Len(PostRuns) = (IF images[containers[wc].img].post THEN 1 ELSE 0)
                     /\ \A i \in 1..Len(PostRuns) :
                           PostRuns[i].rc = 0 /\ PostRuns[i].wc = wc
            /\ (runs[r].pc = "failed" /\ runs[r].at = "f_post") =>
                  /\ Len(PostRuns) = 1
                  /\ log[Len(log)].op = "run" /\ log[Len(log)].rc # 0
            /\ runs[r].pc \in {"has_raw", "find_base", "from", "mount", "rsync",
                               "unmount", "commit", "tag", "f_from", "f_mount", "f_post"}
                  => PostRuns = <<>>

C13_Witness ==
    \E r \in 1..MaxRuns :
        /\ Current(r) /\ runs[r].pc = "done" /\ Len(PostRuns) = 1
        /\ LET f == Committed(r, "final")
           IN f # 0 /\ ~images[f].post /\ images[images[f].parent].post

\* C14: invocations run one after the other.  When one has completed,
\* <build>:latest-raw names the raw image it committed and no other image,
\* <build>:latest names the final image it committed and no other image, and
\* that final image was built on that raw image.
Carriers(ref) == {i \in 1..Len(images) : HasName(images[i], Localhost(ref))}
C14_FloatingTagsFollowRun ==
    \A r \in 1..MaxRuns :
        (Current(r) /\ runs[r].pc = "done") =>
            LET raw == Committed(r, "raw")
                final == Committed(r, "final")
            IN /\ raw # 0 /\ final # 0
               /\ Carriers(LatestRawRef) = {raw}
               /\ Carriers(LatestRef) = {final}
               /\ images[final].parent = raw
               /\ images[raw].run = r /\ images[final].run = r

\* the second run has moved both tags off the images of the first
C14_Witness ==
    /\ Current(2) /\ runs[2].pc = "done" /\ runs[1].pc = "done"
    /\ Committed(1, "raw") # 0 /\ Committed(1, "final") # 0
    /\ Carriers(LatestRawRef) = {Committed(2, "raw")}
    /\ Carriers(LatestRef) = {Committed(2, "final")}

\* C15: two invocations of the same build name whose commands interleave
\* can both complete and leave <build>:latest-raw on another image than the
\* raw image the image named <build>:latest was built on (the witness).  The
\* pointers come apart that way only when invocations have overlapped: when
\* every invocation that started has completed and none overlapped another,
\* latest-raw names the raw image under latest.
Corrupt ==
    /\ StoreHas(LatestRef)
    /\ Carriers(LatestRawRef) # {images[StoreImage(LatestRef)].parent}
C15_CorruptOnlyWhenOverlapped ==
    ((\A r \in 1..MaxRuns : runs[r].pc \in {"idle", "done"}) /\ Corrupt) => overlapped

C15_Witness ==
    /\ runs[1].pc = "done" /\ runs[2].pc = "done"
    /\ overlapped
    /\ Corrupt
    /\ Carriers(LatestRawRef) # {}

\* C16: get_images returns at most one image per Id of the listing, and the
\* image returned for an Id has the parsable references of all the records
\* of that Id.
RECURSIVE NamesOfId(_, _)
NamesOfId(listing, id) ==
    IF listing = <<>> THEN <<>>
    ELSE (IF Head(listing).Id = id THEN ParseNames(Head(listing).Names) ELSE <<>>)
         \o NamesOfId(Tail(listing), id)
C16_OneImagePerId ==
    lookup.op = "get_images" =>
        /\ \A i, j \in 1..Len(lookup.images) :
              lookup.images[i].hashid = lookup.images[j].hashid => i = j
        /\ \A i \in 1..Len(lookup.images) :
              lookup.images[i].names = NamesOfId(lookup.listing, lookup.images[i].hashid)

\* C17: find_build_image(X, T) returns an image only if one of its
\* references has the name X and the tag T.
C17_NameAndTagOnOneReference ==
    (lookup.op = "find_build_image" /\ ~IsNone(lookup.found)) =>
        \E i \in 1..Len(Val(lookup.found).names) :
            /\ Val(lookup.found).names[i].name = lookup.name
            /\ Val(lookup.found).names[i].tag = lookup.tag

\* C18: the reference the first-build path hands to from, the result of
\* get_real_name on the image find_base_image returned, is one of the
\* repository cab/base with the name of the vendor and the tag of the
\* release.
C18_BaseReferenceOfCabBase ==
    (lookup.op = "find_base_image" /\ ~IsNone(lookup.ref)) =>
        LET n == Parse(Val(lookup.ref))
        IN /\ ~IsNone(n)
           /\ Val(n).repo = <<"cab", "/", "base">>
           /\ Val(n).name = Vendor /\ Val(n).tag = Release

\* C19: rm_image, called on an image with n references, has issued when it
\* returns one removal for each of them, in their order and whichever of
\* them failed, and returns success exactly when every removal exited
\* with 0; while it loops it has issued one removal per reference handled.
C19_RemovesEveryReference ==
    /\ removal.pc = "loop" => Len(removal.issued) = removal.i
    /\ removal.pc = "returned" =>
          /\ Len(removal.issued) = Len(removal.names)
          /\ \A i \in 1..Len(removal.names) :
                removal.issued[i].ref = NameStr(removal.names[i])
          /\ removal.success <=> \A i \in 1..Len(removal.issued) : removal.issued[i].rc = 0

\* the first of three removals failed and the other two were still issued
C19_Witness ==
    /\ removal.pc = "returned" /\ Len(removal.names) = 3
    /\ removal.issued[1].rc # 0 /\ removal.issued[2].rc = 0 /\ removal.issued[3].rc = 0
    /\ ~removal.success

\* C20: in one invocation of Build.build the compile step comes first; the
\* pipeline is entered, and a working container exists, only after the
\* compile command exited with 0, and every pipeline command comes after it;
\* when the compile step failed the invocation is over with nothing of the
\* pipeline done; the push is looked up or issued only after the pipeline
\* has completed and only with a registry configured, after every pipeline
\* command.
LogAt(P(_)) == {i \in 1..Len(log) : P(log[i])}
C20_CompilePipelinePush ==
    LET compiled == LogAt(LAMBDA e : e.op = "build" /\ e.rc = 0)
        pipeline == LogAt(LAMBDA e : e.run = 1)
        push == LogAt(LAMBDA e : e.op = "push")
    IN /\ (runs[1].pc # "idle" \/ containers # <<>> \/ pipeline # {}) =>
             /\ inv.compiled = "ok"
             /\ \E i \in compiled : \A j \in pipeline : i < j
       /\ inv.compiled = "failed" =>
             /\ inv.pc = "failed" /\ inv.err \in {"BuildError", "PodmanError"}
             /\ runs[1].pc = "idle" /\ containers = <<>> /\ pipeline = {}
       /\ (inv.pc \in {"push", "push_cmd"} \/ inv.pushed # "no" \/ push # {}) =>
             /\ runs[1].pc = "done"
             /\ ~IsNone(inv.registry)
             /\ \A i \in push : \A j \in pipeline : j < i
       /\ (inv.pc = "done" /\ IsNone(inv.registry)) =>
             (inv.pushed = "no" /\ push = {} /\ runs[1].pc = "done")
       /\ runs[1].pc = "failed" => inv.pc \in {"container", "failed"}

C20_Witness ==
    /\ inv.pc = "done" /\ inv.pushed = "ok"
    /\ \E i, j, k \in 1..Len(log) :
          /\ i < j /\ j < k
          /\ log[i].op = "build" /\ log[j].op = "from" /\ log[k].op = "push"

\* C21: a command of a build invocation that exited non-zero is the last
\* command of the invocation, which ends with a raised error: the invocation
\* never completes with a failed command in its log.
C21_EveryFailureRaises ==
    /\ \A i \in 1..Len(log) : log[i].rc # 0 =>
          /\ i = Len(log)
          /\ inv.pc = "failed" \/ (inv.pc = "container" /\ runs[1].pc = "failed")
    /\ inv.pc = "done" => \A i \in 1..Len(log) : log[i].rc = 0

\* C22: with do_build false no compile command and no lookup of the
\* builder image is issued, and the pipeline is what the invocation does
\* (it completes only with the pipeline completed); with do_container false
\* no working container comes to exist, no from, commit, tag or push is
\* issued, no image is committed and the invocation never reaches the push,
\* registry or not; the compile step runs exactly when do_build is set.
C22_PhasesToggle ==
    LET compile == LogAt(LAMBDA e : e.op = "build" \/ (e.op = "images" /\ e.ref = BuilderRef))
        pipeline == LogAt(LAMBDA e : e.run = 1)
        push == LogAt(LAMBDA e : e.op = "push")
    IN /\ ~inv.do_build =>
             /\ compile = {} /\ inv.compiled = "no"
             /\ inv.pc \notin {"find_builder", "compile"}
       /\ (~inv.do_build /\ inv.do_container /\ inv.pc = "done") => runs[1].pc = "done"
       /\ (inv.do_build /\ inv.pc \in {"container", "push", "push_cmd", "done"}) =>
             inv.compiled = "ok"
       /\ ~inv.do_container =>
             /\ containers = <<>> /\ runs[1].pc = "idle"
             /\ pipeline = {} /\ push = {}
             /\ \A i \in 1..Len(images) : images[i].stage \notin {"raw", "final"}
             /\ inv.pushed = "no"
             /\ inv.pc \notin {"container", "push", "push_cmd"}

\* the compile step is switched off and the pipeline ran and pushed
C22_Witness ==
    /\ ~inv.do_build /\ inv.do_container
    /\ inv.pc = "done" /\ runs[1].pc = "done" /\ inv.pushed = "ok"
    /\ Len(containers) = 2

\* C23: a Buildah object exists only with its container id set, the id of a
\* container of the tool; when the from of a stage exits non-zero or prints
\* nothing, the constructor raises, no object comes to exist, and the from
\* is the last command of the invocation: no mount, commit or tag of that
\* stage follows.
C23_NoSessionWithoutContainer ==
    \A r \in 1..MaxRuns :
        Current(r) =>
            /\ ~IsNone(runs[r].sess) =>
                  /\ IsReady(Val(runs[r].sess))
                  /\ Val(Val(runs[r].sess).wc) \in 1..Len(containers)
            /\ (runs[r].pc = "failed" /\ runs[r].at \in {"from", "f_from"}) =>
                  LET c == Commands
                      n == IF runs[r].at = "from" THEN 1 ELSE 7
                  IN /\ IsNone(runs[r].sess)
                     /\ runs[r].err = "BuildahError"
                     /\ Len(c) = n
                     /\ c[n].op = "from" /\ (c[n].rc # 0 \/ c[n].out = <<>>)
                     /\ \A i \in 1..(n - 1) : c[i].rc = 0
                     /\ n = 1 => \A i \in 1..Len(images) : images[i].run # r

\* the from of the final stage made a container and printed nothing
C23_Witness ==
    \E r \in 1..MaxRuns :
        /\ Current(r) /\ runs[r].pc = "failed" /\ runs[r].at = "f_from"
        /\ log[Len(log)].op = "from" /\ log[Len(log)].rc = 0 /\ log[Len(log)].out = <<>>
        /\ IsNone(runs[r].sess)
        /\ Len(containers) >= 2

\* C24: unmount() on a session that is not committed and has no mount path
\* recorded returns without raising, sends no command and leaves every
\* field as it was; an unmount() that returned leaves no mount path, so an
\* unmount() right after it is such a call: two in a row do what one does.
C24_UnmountIdempotent ==
    /\ ( /\ last.op = "unmount"
         /\ ~Val(last.before).committed
         /\ IsNone(Val(last.before).mount_path) ) =>
            /\ ~last.raised
            /\ last.sent = <<>>
            /\ session = last.before
    /\ (last.op = "unmount" /\ ~last.raised) =>
            /\ IsNone(Val(session).mount_path)
            /\ ~Val(session).committed
            /\ Val(session).wc = Val(last.before).wc
            /\ Val(session).hashid = Val(last.before).hashid
            /\ Val(session).name = Val(last.before).name

\* unmount() of a session whose container the tool no longer has mounted
C24_Witness ==
    /\ last.op = "unmount" /\ ~last.raised /\ last.sent = <<>>
    /\ IsNone(Val(session).mount_path)
    /\ \E i \in 1..Len(containers) : i = Val(Val(session).wc) /\ ~containers[i].mounted

\* C25: run(command) does not raise when the command exits non-zero: it
\* returns the exit code with the lines of the standard error, and the
\* mount path, the committed flag, the hash and the name stay as they were.
C25_RunReturnsFailure ==
    (last.op = "run" /\ last.sent # <<>>) =>
        /\ ~last.raised
        /\ session = last.before
        /\ Val(last.value).rc = 0 => Val(last.value).lines = <<>>
        /\ Val(last.value).rc # 0 => Val(last.value).lines = <<"error">>

\* a run whose command exited non-zero, on a mounted and on a committed object
C25_Witness ==
    /\ last.op = "run" /\ ~last.raised /\ last.sent # <<>>
    /\ Val(last.value).rc # 0
    /\ ~IsNone(Val(session).mount_path)
    /\ Val(session).committed

\* C26: for every string s that parse accepts, str(parse(s)) is s.
C26_RoundTrip == parsing.op = "str" => Val(parsing.text) = parsing.s

\* s is remote/repository/name:tag: four non-empty segments without a delimiter
FourSegments(s) ==
    \E i, j, k \in 1..Len(s) :
        /\ 1 < i /\ i + 1 < j /\ j + 1 < k /\ k < Len(s)
        /\ s[i] = "/" /\ s[j] = "/" /\ s[k] = ":"
        /\ \A m \in 1..Len(s) : s[m] \in {"/", ":"} => m \in {i, j, k}

\* C27: parse returns None for every string that is not exactly four
\* non-empty segments remote/repository/name:tag: the empty string, an
\* empty repository, fewer or more delimited segments.
C27_NoneUnlessFourSegments ==
    (parsing.op = "parse" /\ ~FourSegments(parsing.s)) => IsNone(parsing.result)

\* the names of a record that parse, parsed, in the order of the record
Parsable(strs) == SelectSeq(strs, LAMBDA x : ~IsNone(Parse(x)))

\* an image that is what record rec comes to
FromRecord(image, rec) ==
    /\ image.hashid = rec.Id
    /\ Len(image.names) = Len(Parsable(rec.Names))
    /\ \A j \in 1..Len(image.names) : image.names[j] = Val(Parse(Parsable(rec.Names)[j]))

\* C28: every record of the listing comes to an image whose names are the
\* record's names that parse, in the record's order; names that do not
\* parse neither drop the record nor raise, and a record without a name
\* that parses comes to an image with no reference.
C28_NamesThatParse ==
    lookup.op = "get_images" =>
        /\ \A i \in 1..Len(lookup.listing) :
              \E j \in 1..Len(lookup.images) :
                  FromRecord(lookup.images[j], lookup.listing[i])
        /\ \A j \in 1..Len(lookup.images) :
              \E i \in 1..Len(lookup.listing) :
                  FromRecord(lookup.images[j], lookup.listing[i])

\* a listing with a record of foreign and own names mixed, and one of a
\* foreign name only
C28_Witness ==
    /\ lookup.op = "get_images"
    /\ Len(lookup.listing) = 2
    /\ Len(lookup.listing[1].Names) = 4 /\ Len(lookup.images[1].names) = 2
    /\ Len(lookup.listing[2].Names) = 1 /\ lookup.images[2].names = <<>>

\* the images of a store that carry a reference
CarriersIn(store, ref) == {i \in 1..Len(store) : HasName(store[i], Localhost(ref))}
FinalPlaces == {"f_from", "f_mount", "f_post", "f_unmount", "f_commit", "f_tag"}

\* C29: an invocation that fails has moved only the floating tags it had
\* re-pointed by then.  Failed before its tag latest-raw succeeded,
\* <build>:latest-raw and <build>:latest name the images they named when it
\* started; failed in the final stage, <build>:latest names the image it
\* named before and <build>:latest-raw the raw image just committed.  No
\* image of the store it started with is ever gone.
C29_FailureMovesOnlyDoneTags ==
    \A r \in 1..MaxRuns :
        Current(r) =>
            LET old == runs[r].store0
            IN /\ Len(images) >= Len(old)
               /\ \A i \in 1..Len(old) :
                     /\ images[i].parent = old[i].parent
                     /\ images[i].stage = old[i].stage
                     /\ images[i].run = old[i].run
               /\ (runs[r].pc = "failed" /\ runs[r].at \notin FinalPlaces) =>
                     /\ Carriers(LatestRawRef) = CarriersIn(old, LatestRawRef)
                     /\ Carriers(LatestRef) = CarriersIn(old, LatestRef)
               /\ (runs[r].pc = "failed" /\ runs[r].at \in FinalPlaces) =>
                     /\ Carriers(LatestRef) = CarriersIn(old, LatestRef)
                     /\ Committed(r, "raw") > Len(old)
                     /\ Carriers(LatestRawRef) = {Committed(r, "raw")}

\* the second invocation failed in its final stage after the first had
\* completed: latest stays on the first's final image, latest-raw has moved
C29_Witness ==
    /\ runs[1].pc = "done" /\ runs[2].pc = "failed" /\ runs[2].at \in FinalPlaces
    /\ Carriers(LatestRef) = {Committed(1, "final")}
    /\ Carriers(LatestRawRef) = {Committed(2, "raw")}
    /\ Committed(1, "raw") # 0 /\ Committed(1, "raw") # Committed(2, "raw")

\* C30: whenever mount(), unmount(), commit(), tag() or config() raises, the
\* mount path, the committed flag, the hash and the name of the object are
\* what they were before the call.
C30_RaiseLeavesFields ==
    (last.raised /\ last.op \in {"mount", "unmount", "commit", "tag", "config"}) =>
        /\ Val(session).mount_path = Val(last.before).mount_path
        /\ Val(session).committed = Val(last.before).committed
        /\ Val(session).hashid = Val(last.before).hashid
        /\ Val(session).name = Val(last.before).name

\* C31: in every state of a session the committed flag is set exactly when
\* a hash is recorded and exactly when a name is recorded, and the command
\* tag(t) sends names that hash and <name>:<t>.
C31_CommittedHashName ==
    /\ ~IsNone(session) =>
          /\ Val(session).committed <=> ~IsNone(Val(session).hashid)
          /\ Val(session).committed <=> ~IsNone(Val(session).name)
    /\ (last.op = "tag" /\ last.sent # <<>>) =>
          /\ Len(last.sent) = 1
          /\ ~IsNone(Val(last.before).hashid) /\ ~IsNone(Val(last.before).name)
          /\ last.sent[1].op = "tag"
          /\ last.sent[1].img = Val(Val(last.before).hashid)
          /\ \E tg \in ExtraTags :
                last.sent[1].ref = Val(Val(last.before).name) \o <<":">> \o tg

\* a tag command of a committed session that the tool carried out
C31_Witness ==
    /\ last.op = "tag" /\ ~last.raised /\ last.sent # <<>>
    /\ Val(session).committed
    /\ Val(Val(session).hashid) \in 1..Len(images)
    /\ HasName(images[Val(Val(session).hashid)],
               Localhost(Val(Val(session).name) \o <<":", "latest">>))

\* C32: whatever the invocations of a build do, failing or interleaving,
\* every image that carries <build>:latest-raw was committed by the raw
\* stage of an invocation of the build and every image that carries
\* <build>:latest by the final stage of one: latest is never on a raw image
\* and latest-raw never on a final image.
C32_FloatingTagsKeepTheirStage ==
    /\ \A i \in Carriers(LatestRawRef) :
          images[i].stage = "raw" /\ images[i].run \in 1..MaxRuns
    /\ \A i \in Carriers(LatestRef) :
          images[i].stage = "final" /\ images[i].run \in 1..MaxRuns
    /\ Carriers(LatestRawRef) \cap Carriers(LatestRef) = {}

\* two invocations interleaved, one failed in its final stage and the other
\* completed, and both floating tags are in the store
C32_Witness ==
    /\ overlapped
    /\ runs[1].pc = "failed" /\ runs[1].at \in FinalPlaces
    /\ runs[2].pc = "done"
    /\ Carriers(LatestRawRef) # {} /\ Carriers(LatestRef) # {}
    /\ \E i \in Carriers(LatestRawRef) : images[i].run = 1

\* the references the store holds for the image of a listed image
StoreNames(store, img) == store[img.hashid].names

C34_CommitOnlyAfterCleanRuns ==
    \A i \in 1..Len(log) :
        (log[i].op = "commit" /\ log[i].rc = 0) =>
            \A j \in 1..(i - 1) : log[j].op = "run" => log[j].rc = 0

\* C35: whenever rm_image(image) returns success, a removal has been issued
\* for every reference under which the tool lists the image, so that the
\* image has no reference left; images with listed names that did not
\* parse, or with no names, included.
C35_SuccessLeavesNoReference ==
    (removal.pc = "returned" /\ removal.success) =>
        images[removal.hashid].names = <<>>

\* C36: a Config written with commit and loaded again has the installs
\* directory, the ccache directory, the ccache size, the registry URL and
\* the registry-secure flag that were set before the write, whichever of
\* the optional fields are set.
C36_ConfigRoundTrip ==
    conf.pc = "loaded" =>
        /\ conf.loaded.installs_dir = conf.obj.installs_dir
        /\ conf.loaded.ccache_dir = conf.obj.ccache_dir
        /\ conf.loaded.ccache_default_size = conf.obj.ccache_default_size
        /\ conf.loaded.registry_url = conf.obj.registry_url
        /\ conf.loaded.registry_is_secure = conf.obj.registry_is_secure

====
